---- MODULE Spec2Model ----
(***************************************************************************)
(* A model of the Dutchie menu crawler (scraping/dutchie_graphql.py):      *)
(* the stock policy, the per-variant row builder, the payload extractor,   *)
(* the row deduplicator, the response listener and the pagination loop of  *)
(* crawl_dutchie.                                                          *)
(*                                                                         *)
(* JSON values (what json.loads returns) are records of one uniform shape  *)
(*   [t, s, n, items]                                                      *)
(* t is the Python type ("null", "bool", "str", "num", "list", "dict"),    *)
(* s the text of a str, n the value of a num (1/0 for a bool), items the   *)
(* members of a list or dict, in order, each [k |-> key, val |-> value]    *)
(* (k is "" for the members of a list).  Numbers are integers.             *)
(***************************************************************************)
EXTENDS Integers, Sequences, FiniteSets, TLC

\* ------------------------------------------------------------------ bounds

\* Longest variants list of a generated product node.
MaxVariants == 3

\* ------------------------------------------------------------- JSON values

Null == [t |-> "null", s |-> "", n |-> 0, items |-> <<>>]
Bool(b) == [t |-> "bool", s |-> "", n |-> IF b THEN 1 ELSE 0, items |-> <<>>]
Str(x) == [t |-> "str", s |-> x, n |-> 0, items |-> <<>>]
Num(x) == [t |-> "num", s |-> "", n |-> x, items |-> <<>>]
KV(key, v) == [k |-> key, val |-> v]
List(vs) == [t |-> "list", s |-> "", n |-> 0,
             items |-> [i \in 1..Len(vs) |-> KV("", vs[i])]]
Dict(kvs) == [t |-> "dict", s |-> "", n |-> 0, items |-> kvs]

\* Python truthiness: what `x or y` and `if x` test.
Truthy(v) ==
    CASE v.t = "null" -> FALSE
      [] v.t = "bool" -> v.n = 1
      [] v.t = "str" -> v.s # ""
      [] v.t = "num" -> v.n # 0
      [] OTHER -> Len(v.items) > 0

\* `a or b`: a when a is truthy, else b (whatever b is).
Or2(a, b) == IF Truthy(a) THEN a ELSE b
Or3(a, b, c) == Or2(a, Or2(b, c))
Or4(a, b, c, d) == Or2(a, Or3(b, c, d))

\* dict.get(key): the value stored under key, None when there is none.
Get(d, key) ==
    IF d.t = "dict" /\ \E i \in 1..Len(d.items) : d.items[i].k = key
    THEN d.items[CHOOSE i \in 1..Len(d.items) : d.items[i].k = key].val
    ELSE Null

\* `key in d`.
HasKey(d, key) == d.t = "dict" /\ \E i \in 1..Len(d.items) : d.items[i].k = key

\* ------------------------------------------------------------ str methods

UpperAlphabet == "ABCDEFGHIJKLMNOPQRSTUVWXYZ"
LowerAlphabet == "abcdefghijklmnopqrstuvwxyz"

CharAt(str, i) == SubSeq(str, i, i)

\* The character table that takes each character of `from` to the one at the
\* same place of `to`.
CharTable(from, to) ==
    [c \in {CharAt(from, i) : i \in 1..Len(from)} |->
        CharAt(to, CHOOSE i \in 1..Len(from) : CharAt(from, i) = c)]

ToLowerTable == CharTable(UpperAlphabet, LowerAlphabet)
ToUpperTable == CharTable(LowerAlphabet, UpperAlphabet)

RECURSIVE MapStr(_, _)
MapStr(str, table) ==
    IF str = "" THEN ""
    ELSE (IF CharAt(str, 1) \in DOMAIN table THEN table[CharAt(str, 1)] ELSE CharAt(str, 1))
         \o MapStr(SubSeq(str, 2, Len(str)), table)

\* str.lower() and str.upper()
Lower(str) == MapStr(str, ToLowerTable)
Upper(str) == MapStr(str, ToUpperTable)

RECURSIVE LStrip(_)
LStrip(str) ==
    IF str # "" /\ CharAt(str, 1) = " " THEN LStrip(SubSeq(str, 2, Len(str))) ELSE str

RECURSIVE RStrip(_)
RStrip(str) ==
    IF str # "" /\ CharAt(str, Len(str)) = " "
    THEN RStrip(SubSeq(str, 1, Len(str) - 1))
    ELSE str

\* str.strip()
Strip(str) == RStrip(LStrip(str))

\* `needle in haystack` on strings
Contains(haystack, needle) ==
    \E i \in 1..(Len(haystack) - Len(needle) + 1) :
        SubSeq(haystack, i, i + Len(needle) - 1) = needle

DigitChars == "0123456789"

RECURSIVE NatToStr(_)
NatToStr(x) ==
    IF x < 10 THEN CharAt(DigitChars, x + 1)
    ELSE NatToStr(x \div 10) \o CharAt(DigitChars, (x % 10) + 1)

\* str(v) of a scalar; the repr of a list or dict is not spelled out.
StrOf(v) ==
    CASE v.t = "str" -> v.s
      [] v.t = "num" -> IF v.n < 0 THEN "-" \o NatToStr(0 - v.n) ELSE NatToStr(v.n)
      [] v.t = "bool" -> IF v.n = 1 THEN "True" ELSE "False"
      [] v.t = "null" -> "None"
      [] v.t = "list" -> "[...]"
      [] OTHER -> "{...}"

\* ----------------------------------------------------------- stock policy

_STOCK_KEYS ==
    {"instock", "isavailable", "available", "stockstatus", "inventorystatus",
     "quantityavailable", "quantity"}

\* The strings the product-level check reads as out of stock.
ProductOutOfStockStrings ==
    {"false", "0", "out_of_stock", "out of stock", "unavailable", "no"}

\* The strings the variant-level checks read as out of stock.
VariantOutOfStockStrings == {"false", "0", "out_of_stock", "unavailable"}

IsScalarSignal(v) == v.t \in {"bool", "str", "num"}

\* Positions of d's members whose lower-cased key is a stock key.
StockKeyPositions(d) ==
    {i \in 1..Len(d.items) : Lower(d.items[i].k) \in _STOCK_KEYS}

Min(S) == CHOOSE x \in S : \A y \in S : x <= y

\* A mutation of StockVerdict: a quantity of zero still counts as in stock.
StockVerdictZeroInStock(v, outStrings) ==
    CASE v.t = "bool" -> v.n = 1
      [] v.t = "str" -> Lower(v.s) \notin outStrings
      [] OTHER -> v.n >= 0

\* The verdict of one stock value: bool as is, str unless listed, num iff > 0.
StockVerdict(v, outStrings) ==
    CASE v.t = "bool" -> v.n = 1
      [] v.t = "str" -> Lower(v.s) \notin outStrings
      [] OTHER -> v.n > 0

\* The variants value of a node: product.get("variants") or product.get("options") or []
VariantsOf(product) == Or3(Get(product, "variants"), Get(product, "options"), List(<<>>))

\* `variants and isinstance(variants, list)`
HasVariantList(product) ==
    Truthy(VariantsOf(product)) /\ VariantsOf(product).t = "list"

\* The second loop of _is_in_stock: some dict variant has a stock field that
\* reads in stock.  Both of its exits return True.
SomeVariantSignalsStock(product) ==
    \E i \in 1..Len(VariantsOf(product).items) :
        LET variant == VariantsOf(product).items[i].val IN
        /\ variant.t = "dict"
        /\ \E j \in StockKeyPositions(variant) :
              /\ IsScalarSignal(variant.items[j].val)
              /\ StockVerdict(variant.items[j].val, VariantOutOfStockStrings)

\* A mutation of _is_in_stock: with no product-level verdict, the variants'
\* stock fields decide.
_is_in_stock_variants_decide(product) ==
    LET decisive == {i \in StockKeyPositions(product) :
                        IsScalarSignal(product.items[i].val)}
    IN  IF decisive # {}
        THEN StockVerdict(product.items[Min(decisive)].val, ProductOutOfStockStrings)
        ELSE IF HasVariantList(product)
             THEN SomeVariantSignalsStock(product)
             ELSE TRUE

\* _is_in_stock(product): the first product-level stock field holding a bool,
\* str or number decides; with none, the node is in stock.
_is_in_stock(product) ==
    LET decisive == {i \in StockKeyPositions(product) :
                        IsScalarSignal(product.items[i].val)}
    IN  IF decisive # {}
        THEN StockVerdict(product.items[Min(decisive)].val, ProductOutOfStockStrings)
        ELSE IF HasVariantList(product)
             THEN IF SomeVariantSignalsStock(product) THEN TRUE ELSE TRUE
             ELSE TRUE

\* ------------------------------------------------------------ row building

\* The name of one cannabinoids entry c, as _extract_cannabinoid reads it.
CannabinoidName(c) ==
    LET cb_obj == Or2(Get(c, "cannabinoid"), Dict(<<>>)) IN
    CASE cb_obj.t = "dict" -> Or2(Get(cb_obj, "name"), Str(""))
      [] cb_obj.t = "str" -> cb_obj
      [] OTHER -> Or3(Get(c, "cannabinoidType"), Get(c, "name"), Str(""))

\* The value of one cannabinoids entry: value or formattedValue or percentageValue
CannabinoidValue(c) ==
    Or3(Get(c, "value"), Get(c, "formattedValue"), Get(c, "percentageValue"))

\* _extract_cannabinoid(product, name): str() of the value of the first entry
\* of product.cannabinoids named `name` (case-insensitively) that has a value.
_extract_cannabinoid(product, name) ==
    LET cannabinoids == Or2(Get(product, "cannabinoids"), List(<<>>))
        entries == IF cannabinoids.t = "list" THEN cannabinoids.items ELSE <<>>
        hits == {i \in 1..Len(entries) :
                    /\ entries[i].val.t = "dict"
                    /\ CannabinoidName(entries[i].val).t = "str"
                    /\ Upper(CannabinoidName(entries[i].val).s) = Upper(name)
                    /\ CannabinoidValue(entries[i].val).t # "null"}
    IN  IF hits = {} THEN Null
        ELSE Str(StrOf(CannabinoidValue(entries[Min(hits)].val)))

\* name = product.get("name") or product.get("title") or product.get("displayName")
RawName(product) ==
    Or3(Get(product, "name"), Get(product, "title"), Get(product, "displayName"))

\* `not name or not isinstance(name, str) or not name.strip()` is false
HasUsableName(product) ==
    /\ Truthy(RawName(product))
    /\ RawName(product).t = "str"
    /\ Strip(RawName(product).s) # ""

ProductName(product) == Str(Strip(RawName(product).s))

\* A mutation of ProductCategory: the "category" key is not read.
ProductCategoryWrongKeys(product) ==
    LET category == Or3(Get(product, "type"), Get(product, "productType"),
                        Get(product, "kind"))
    IN  IF category.t = "dict"
        THEN Or2(Get(category, "name"), Get(category, "title"))
        ELSE category

ProductCategory(product) ==
    LET category == Or4(Get(product, "category"), Get(product, "type"),
                        Get(product, "productType"), Get(product, "kind"))
    IN  IF category.t = "dict"
        THEN Or2(Get(category, "name"), Get(category, "title"))
        ELSE category

ProductBrand(product) ==
    LET brand_obj == Or2(Get(product, "brand"), Get(product, "brandInfo")) IN
    CASE brand_obj.t = "dict" -> Or2(Get(brand_obj, "name"), Get(brand_obj, "title"))
      [] brand_obj.t = "str" -> brand_obj
      [] OTHER -> Null

ProductId(product) ==
    Or3(Get(product, "id"), Get(product, "productId"), Get(product, "slug"))

\* The per-variant stock check of _build_rows_from_product: only the first
\* member with a stock key is looked at (the loop breaks after it).
VariantInStock(variant) ==
    IF StockKeyPositions(variant) = {} THEN TRUE
    ELSE LET v == variant.items[Min(StockKeyPositions(variant))].val IN
         IF IsScalarSignal(v) THEN StockVerdict(v, VariantOutOfStockStrings) ELSE TRUE

\* A mutation of VariantPrice: the first field present is taken, whatever its
\* value.
VariantPriceFirstPresent(variant) ==
    IF HasKey(variant, "specialPrice") THEN Get(variant, "specialPrice")
    ELSE IF HasKey(variant, "price") THEN Get(variant, "price")
    ELSE IF HasKey(variant, "amount") THEN Get(variant, "amount")
    ELSE Get(variant, "listPrice")

VariantPrice(variant) ==
    Or4(Get(variant, "specialPrice"), Get(variant, "price"),
        Get(variant, "amount"), Get(variant, "listPrice"))

VariantSize(variant) ==
    LET size == Or3(Get(variant, "size"), Get(variant, "weight"), Get(variant, "option"))
    IN  IF size.t # "null" THEN Str(StrOf(size)) ELSE Null

VariantSku(variant, product) ==
    LET variant_id == Or2(Get(variant, "id"), Get(variant, "variantId")) IN
    IF Truthy(variant_id) THEN Str(StrOf(variant_id))
    ELSE IF Truthy(ProductId(product)) THEN Str(StrOf(ProductId(product))) ELSE Null

\* The fields every row of one product shares.
SharedFields(product, source_url, menu_type) ==
    [Product |-> ProductName(product),
     Menu_Type |-> menu_type,
     Category |-> ProductCategory(product),
     Brand |-> ProductBrand(product),
     THC |-> _extract_cannabinoid(product, "THC"),
     CBD |-> _extract_cannabinoid(product, "CBD"),
     Source |-> Str("Dutchie GraphQL"),
     Source_URL |-> Str(source_url)]

Row(shared, price, size, sku) ==
    [Product |-> shared.Product, Menu_Type |-> shared.Menu_Type,
     Category |-> shared.Category, Brand |-> shared.Brand,
     THC |-> shared.THC, CBD |-> shared.CBD,
     Price |-> price, Size |-> size, SKU |-> sku,
     Source |-> shared.Source, Source_URL |-> shared.Source_URL]

VariantRow(variant, product, source_url, menu_type) ==
    Row(SharedFields(product, source_url, menu_type),
        VariantPrice(variant), VariantSize(variant), VariantSku(variant, product))

\* A mutation of EmitsRow: the per-variant stock check is left out.
EmitsRowNoStockCheck(variant) == variant.t = "dict"

\* Whether the variants loop emits a row for this member of the list.
EmitsRow(variant) == variant.t = "dict" /\ VariantInStock(variant)

\* The rows of the variants loop over members i..Len, in list order.
RECURSIVE VariantRowsFrom(_, _, _, _)
VariantRowsFrom(i, product, source_url, menu_type) ==
    LET members == VariantsOf(product).items IN
    IF i > Len(members) THEN <<>>
    ELSE (IF EmitsRow(members[i].val)
          THEN <<VariantRow(members[i].val, product, source_url, menu_type)>>
          ELSE <<>>)
         \o VariantRowsFrom(i + 1, product, source_url, menu_type)

\* The else branch: one row at product level, price from the product.
ProductLevelRow(product, source_url, menu_type) ==
    LET price == Or3(Get(product, "price"), Get(product, "basePrice"),
                     Get(product, "amount"))
    IN  Row(SharedFields(product, source_url, menu_type),
            IF price.t = "dict" THEN Or2(Get(price, "amount"), Get(price, "value"))
            ELSE price,
            Null,
            IF Truthy(ProductId(product)) THEN Str(StrOf(ProductId(product))) ELSE Null)

\* A mutation of _build_rows_from_product: the product-level row is a second
\* chance when the variants loop emitted nothing.
BuildRowsFallbackWhenNoneEmitted(product, source_url, menu_type) ==
    IF ~HasUsableName(product) THEN <<>>
    ELSE IF HasVariantList(product)
              /\ VariantRowsFrom(1, product, source_url, menu_type) # <<>>
         THEN VariantRowsFrom(1, product, source_url, menu_type)
         ELSE <<ProductLevelRow(product, source_url, menu_type)>>

\* _build_rows_from_product(product, source_url, menu_type)
_build_rows_from_product(product, source_url, menu_type) ==
    IF ~HasUsableName(product) THEN <<>>
    ELSE IF HasVariantList(product)
         THEN VariantRowsFrom(1, product, source_url, menu_type)
         ELSE <<ProductLevelRow(product, source_url, menu_type)>>

\* ------------------------------------------------- one node of a product list

\* What the crawl's inner loop adds to a page for one element of a product
\* list: nothing when _is_in_stock says no, else the rows built from it.
RowsOfProduct(prod, source_url, menu_type) ==
    IF ~_is_in_stock(prod) THEN <<>>
    ELSE _build_rows_from_product(prod, source_url, menu_type)

\* The menu URL of the modelled crawl.
url == "https://shop.example/rec/menu?ref=home"

\* _detect_menu_type(url)
_detect_menu_type(u) ==
    IF Contains(Lower(u), "/med") \/ Contains(Lower(u), "medical") THEN Str("med")
    ELSE IF Contains(Lower(u), "/rec") \/ Contains(Lower(u), "adult")
            \/ Contains(Lower(u), "recreational")
         THEN Str("rec")
         ELSE Null

\* ------------------------------------------------------- payload extraction

\* Known nested paths to the product array, in priority order.
_PRODUCT_ARRAY_PATHS ==
    << <<"data", "filteredProducts", "products">>,
       <<"data", "products", "products">>,
       <<"data", "menuProducts">>,
       <<"data", "products">> >>

\* The inner loop over one path: stop at the first non-dict, else descend.
RECURSIVE WalkPath(_, _, _)
WalkPath(obj, path, i) ==
    IF i > Len(path) \/ obj.t # "dict" THEN obj
    ELSE WalkPath(Get(obj, path[i]), path, i + 1)

\* Default of _find_product_list's max_depth parameter.
max_depth == 6

\* A mutation of IsNamedDict: only "name" marks a product-like dict.
IsNamedDictNameOnly(item) == item.t = "dict" /\ HasKey(item, "name")

\* `isinstance(item, dict) and ("name" in item or "title" in item)`
IsNamedDict(item) == item.t = "dict" /\ (HasKey(item, "name") \/ HasKey(item, "title"))

\* A mutation of QualifiesAsProductList: any non-empty list is taken.
QualifiesAnyList(obj) == Len(obj.items) > 0

\* A mutation of QualifiesAsProductList: one named member is enough.
QualifiesWithOneNamed(obj) ==
    Cardinality({i \in 1..Len(obj.items) : IsNamedDict(obj.items[i].val)}) > 0

\* The list test of _find_product_list: named >= min(2, len(obj)) and named > 0
QualifiesAsProductList(obj) ==
    LET named == Cardinality({i \in 1..Len(obj.items) : IsNamedDict(obj.items[i].val)})
    IN  /\ named >= (IF Len(obj.items) < 2 THEN Len(obj.items) ELSE 2)
        /\ named > 0

\* _find_product_list(obj, depth): the members of the list found ([] if none).
\* BestFrom scans the members i.. of a dict or list, keeping the first
\* strictly longest candidate.
RECURSIVE _find_product_list(_, _), BestFrom(_, _, _, _), BestFromKeepsFirst(_, _, _, _)
_find_product_list(obj, depth) ==
    IF depth > max_depth THEN <<>>
    ELSE IF obj.t = "dict" THEN BestFrom(obj, 1, depth, <<>>)
    ELSE IF obj.t = "list"
         THEN IF QualifiesAsProductList(obj)
              THEN [i \in 1..Len(obj.items) |-> obj.items[i].val]
              ELSE BestFrom(obj, 1, depth, <<>>)
    ELSE <<>>

\* A mutation of BestFrom: the first candidate found is kept, longer or not.
BestFromKeepsFirst(obj, i, depth, best) ==
    IF i > Len(obj.items) THEN best
    ELSE LET candidate == _find_product_list(obj.items[i].val, depth + 1) IN
         BestFromKeepsFirst(obj, i + 1, depth, IF Len(best) = 0 THEN candidate ELSE best)

BestFrom(obj, i, depth, best) ==
    IF i > Len(obj.items) THEN best
    ELSE LET candidate == _find_product_list(obj.items[i].val, depth + 1) IN
         BestFrom(obj, i + 1, depth, IF Len(candidate) > Len(best) THEN candidate ELSE best)

\* _extract_products_from_payload(payload): the members of the product list
\* of one captured entry.
_extract_products_from_payload(payload) ==
    LET body == Or2(payload.json, payload.data)
        resolved == {i \in 1..Len(_PRODUCT_ARRAY_PATHS) :
                        WalkPath(body, _PRODUCT_ARRAY_PATHS[i], 1).t = "list"}
    IN  IF ~Truthy(body) \/ body.t # "dict" THEN <<>>
        ELSE IF resolved # {}
             THEN LET found == WalkPath(body, _PRODUCT_ARRAY_PATHS[Min(resolved)], 1)
                  IN  [i \in 1..Len(found.items) |-> found.items[i].val]
             ELSE _find_product_list(body, 0)

\* ------------------------------------------------------------ page contents

\* Whether handling this element of a product list raises: a non-dict has no
\* .items(), and a truthy non-iterable cannabinoids value cannot be looped over.
ProductRaises(prod) ==
    \/ prod.t # "dict"
    \/ /\ _is_in_stock(prod)
       /\ HasUsableName(prod)
       /\ Get(prod, "cannabinoids").t \in {"num", "bool"}
       /\ Truthy(Get(prod, "cannabinoids"))

\* rows followed by the rows of `rest`; raised when `rest` raised.
Joined(rows, rest) == [rows |-> rows \o rest.rows, raised |-> rest.raised]

\* The rows of products i.. of one product list, in order, up to the first
\* element that raises: [rows, raised].
RECURSIVE RowsOfProducts(_, _, _, _)
RowsOfProducts(products, i, source_url, menu_type) ==
    IF i > Len(products) THEN [rows |-> <<>>, raised |-> FALSE]
    ELSE IF ProductRaises(products[i]) THEN [rows |-> <<>>, raised |-> TRUE]
    ELSE Joined(RowsOfProduct(products[i], source_url, menu_type),
                RowsOfProducts(products, i + 1, source_url, menu_type))

RowsOfPayload(payload, source_url, menu_type) ==
    RowsOfProducts(_extract_products_from_payload(payload), 1, source_url, menu_type)

\* page_products of entries i.. of new_captures: [rows, raised].
RECURSIVE PageProducts(_, _, _, _), PageFrom(_, _, _, _, _)
PageProducts(new_captures, i, source_url, menu_type) ==
    IF i > Len(new_captures) THEN [rows |-> <<>>, raised |-> FALSE]
    ELSE PageFrom(RowsOfPayload(new_captures[i], source_url, menu_type),
                  new_captures, i, source_url, menu_type)

\* ... given `first`, the rows of entry i.
PageFrom(first, new_captures, i, source_url, menu_type) ==
    IF first.raised THEN [rows |-> <<>>, raised |-> TRUE]
    ELSE Joined(first.rows, PageProducts(new_captures, i + 1, source_url, menu_type))

\* ------------------------------------------------------------ deduplication

\* A price as a member of a Python tuple key: True == 1 and False == 0.
KeyPrice(price) == IF price.t = "bool" THEN Num(price.n) ELSE price

\* key = (row.get("Product"), row.get("Price"), row.get("Size"))
KeyOf(row) == <<row.Product, KeyPrice(row.Price), row.Size>>

\* Hashing the key raises TypeError when the price is a list or a dict.
Hashable(row) == row.Price.t \notin {"list", "dict"}

\* A mutation of IsNewKey: every row is taken as new.
IsNewKeyAlways(key, seen) == TRUE

\* `key not in seen_keys`
IsNewKey(key, seen) == key \notin seen

\* A mutation of _dedup_and_add: seen_keys.add(key) is left out.
RECURSIVE _dedup_and_add_forgets_key(_, _, _, _)
_dedup_and_add_forgets_key(rows, i, held, seen) ==
    IF i > Len(rows)
    THEN [all_rows |-> held, seen_keys |-> seen, added |-> 0, raised |-> FALSE]
    ELSE IF ~Hashable(rows[i])
    THEN [all_rows |-> held, seen_keys |-> seen, added |-> 0, raised |-> TRUE]
    ELSE IF IsNewKey(KeyOf(rows[i]), seen)
    THEN LET rest == _dedup_and_add_forgets_key(rows, i + 1, Append(held, rows[i]), seen)
         IN  [rest EXCEPT !.added = @ + 1]
    ELSE _dedup_and_add_forgets_key(rows, i + 1, held, seen)

\* _dedup_and_add(rows) from row i on, starting from the rows and keys held:
\* [all_rows, seen_keys, added, raised]; rows added before a raise stay added.
RECURSIVE _dedup_and_add(_, _, _, _)
_dedup_and_add(rows, i, held, seen) ==
    IF i > Len(rows)
    THEN [all_rows |-> held, seen_keys |-> seen, added |-> 0, raised |-> FALSE]
    ELSE IF ~Hashable(rows[i])
    THEN [all_rows |-> held, seen_keys |-> seen, added |-> 0, raised |-> TRUE]
    ELSE IF IsNewKey(KeyOf(rows[i]), seen)
    THEN LET rest == _dedup_and_add(rows, i + 1, Append(held, rows[i]),
                                    seen \cup {KeyOf(rows[i])})
         IN  [rest EXCEPT !.added = @ + 1]
    ELSE _dedup_and_add(rows, i + 1, held, seen)

\* sig = frozenset((Product, Price, Size) for r in page_products)
SignatureOf(page_products) ==
    {KeyOf(page_products[i]) : i \in 1..Len(page_products)}

\* ------------------------------------------------------------------- URLs

\* base_url.split("?")[0]
RECURSIVE BeforeQuery(_)
BeforeQuery(u) ==
    IF u = "" \/ CharAt(u, 1) = "?" THEN ""
    ELSE CharAt(u, 1) \o BeforeQuery(SubSeq(u, 2, Len(u)))

\* urllib.parse.quote(text, safe=''), for letters, digits, "_.-~" (kept) and
\* the space, "&", "/" and "=" (percent-encoded).
QuoteTable == (" " :> "%20") @@ ("&" :> "%26") @@ ("/" :> "%2F") @@ ("=" :> "%3D")

quote(text) == MapStr(text, QuoteTable)

\* A mutation of _page_url: the query string of base_url is kept.
_page_url_keeps_query(base_url, category, page) ==
    LET catParam == IF Truthy(category)
                    THEN <<"dtche%5Bcategory%5D=" \o quote(category.s)>> ELSE <<>>
        pageParam == IF page > 1 THEN <<"dtche%5Bpage%5D=" \o NatToStr(page)>> ELSE <<>>
        params == catParam \o pageParam
    IN  IF Len(params) = 0 THEN base_url
        ELSE IF Len(params) = 1 THEN base_url \o "&" \o params[1]
        ELSE base_url \o "&" \o params[1] \o "&" \o params[2]

\* _page_url(base_url, category, page), category a str or None
_page_url(base_url, category, page) ==
    LET base == BeforeQuery(base_url)
        catParam == IF Truthy(category)
                    THEN <<"dtche%5Bcategory%5D=" \o quote(category.s)>> ELSE <<>>
        pageParam == IF page > 1 THEN <<"dtche%5Bpage%5D=" \o NatToStr(page)>> ELSE <<>>
        params == catParam \o pageParam
    IN  IF Len(params) = 0 THEN base
        ELSE IF Len(params) = 1 THEN base \o "?" \o params[1]
        ELSE base \o "?" \o params[1] \o "&" \o params[2]

\* --------------------------------------------------------- the result table

NaN == [t |-> "nan", s |-> "", n |-> 0, items |-> <<>>]

IsDigits(str) ==
    str # "" /\ \A i \in 1..Len(str) : \E d \in 1..10 : CharAt(DigitChars, d) = CharAt(str, i)

RECURSIVE DigitsToNat(_)
DigitsToNat(str) ==
    IF str = "" THEN 0
    ELSE 10 * DigitsToNat(SubSeq(str, 1, Len(str) - 1))
         + ((CHOOSE d \in 1..10 : CharAt(DigitChars, d) = CharAt(str, Len(str))) - 1)

\* pd.to_numeric(value, errors="coerce") of one cell: numbers stay, decimal
\* digit strings are parsed, anything else becomes NaN.
to_numeric(v) ==
    CASE v.t = "num" -> v
      [] v.t = "bool" -> Num(v.n)
      [] v.t = "str" -> IF IsDigits(Strip(v.s)) THEN Num(DigitsToNat(Strip(v.s))) ELSE NaN
      [] OTHER -> NaN

\* df = pd.DataFrame(all_rows); df["Price"] = pd.to_numeric(df["Price"], errors="coerce")
ResultTable(rows) ==
    [i \in 1..Len(rows) |-> [rows[i] EXCEPT !.Price = to_numeric(@)]]

\* ------------------------------------------------------ product nodes tried

\* The variant members product nodes are generated from.
VariantPool ==
    { Dict(<<KV("id", Str("v1")), KV("price", Num(10)), KV("size", Str("1g"))>>),
      Dict(<<KV("price", Num(25)), KV("weight", Str("3.5g")), KV("quantity", Num(0))>>),
      Dict(<<KV("specialPrice", Num(8)), KV("price", Num(12)), KV("option", Num(2)),
             KV("inStock", Bool(FALSE))>>),
      Dict(<<KV("listPrice", Str("$30")), KV("size", Str("7g")),
             KV("QuantityAvailable", Num(3))>>),
      Str("eighth") }

RECURSIVE SeqsUpTo(_, _)
SeqsUpTo(S, len) ==
    IF len = 0 THEN {<<>>}
    ELSE SeqsUpTo(S, len - 1)
         \cup {Append(q, x) : q \in {r \in SeqsUpTo(S, len - 1) : Len(r) = len - 1}, x \in S}

NameFieldChoices ==
    { <<>>,
      <<KV("name", Str("Blue Dream"))>>,
      <<KV("name", Str("")), KV("title", Str(" OG Kush "))>> }

StockFieldChoices ==
    { <<>>,
      <<KV("quantityAvailable", Num(0))>>,
      <<KV("stockStatus", Str("In Stock"))>> }

DetailFieldChoices ==
    { <<>>,
      <<KV("brand", Dict(<<KV("name", Str("Acme"))>>)),
        KV("cannabinoids",
           List(<<Dict(<<KV("cannabinoid", Dict(<<KV("name", Str("thc"))>>)),
                         KV("value", Num(22))>>)>>)),
        KV("price", Dict(<<KV("amount", Num(40))>>)),
        KV("id", Num(7))>> }

VariantFieldChoices ==
    {<<>>, <<KV("variants", Str("n/a"))>>}
    \cup {<<KV("variants", List(vs))>> : vs \in SeqsUpTo(VariantPool, MaxVariants)}
    \cup {<<KV("variants", List(<<>>)), KV("options", List(<<v>>))>> : v \in VariantPool}

ProductNodes ==
    {Dict(nf \o sf \o df \o vf) :
        nf \in NameFieldChoices, sf \in StockFieldChoices,
        df \in DetailFieldChoices, vf \in VariantFieldChoices}

\* ------------------------------------------------------ the site crawled

\* Most categories the menu page links to.
MaxCategories == 2

\* Most GraphQL responses the browser delivers during one crawl.
MaxResponses == 3

\* The max_pages argument of the modelled crawl (pages per category).
max_pages == 3

CategoryNames == <<"Flower", "Vape", "Edibles", "Pre Rolls">>

\* What _discover_categories can return: no token twice, in first-seen order.
\* The menus modelled carry no token, one token, or MaxCategories tokens.
CategoryLists ==
    {<<>>, <<CategoryNames[4]>>, SubSeq(CategoryNames, 1, MaxCategories)}

ProdA ==
    Dict(<<KV("name", Str("Blue Dream")), KV("category", Str("Flower")),
           KV("variants",
              List(<<Dict(<<KV("price", Num(10)), KV("size", Str("1g"))>>),
                     Dict(<<KV("price", Str("25")), KV("size", Str("3.5g"))>>)>>))>>)

ProdB == Dict(<<KV("name", Str("House Preroll")), KV("price", Num(8))>>)

ProdC ==
    Dict(<<KV("name", Str("Vape Cart")), KV("category", Dict(<<KV("name", Str("Vape"))>>)),
           KV("variants",
              List(<<Dict(<<KV("price", Num(30)), KV("quantity", Num(0))>>)>>))>>)

ProdD ==
    Dict(<<KV("title", Str("Gummies")),
           KV("variants",
              List(<<Dict(<<KV("price", Dict(<<KV("amount", Num(5))>>)),
                            KV("size", Str("10pk"))>>)>>))>>)

BodyTwoProducts ==
    Dict(<<KV("data", Dict(<<KV("filteredProducts",
                                Dict(<<KV("products", List(<<ProdA, ProdB>>))>>))>>))>>)

BodyOneProduct == Dict(<<KV("data", Dict(<<KV("menuProducts", List(<<ProdA>>))>>))>>)

ProdE ==
    Dict(<<KV("name", Str("Edible Bar")), KV("kind", Dict(<<KV("title", Str("Edibles"))>>)),
           KV("price", Num(12)), KV("available", Bool(TRUE))>>)

BodyOneEdible ==
    Dict(<<KV("data", Dict(<<KV("menu", Dict(<<KV("items", List(<<ProdE>>))>>))>>))>>)

BodyOnePreroll ==
    Dict(<<KV("data", Dict(<<KV("products", Dict(<<KV("products", List(<<ProdB>>))>>))>>))>>)

BodyOutOfStock == Dict(<<KV("data", Dict(<<KV("products", List(<<ProdC>>))>>))>>)

BodyUnhashablePrice ==
    Dict(<<KV("result", Dict(<<KV("items", List(<<ProdB, ProdD>>))>>))>>)

\* A body with no product-like node anywhere.
BodyNoProducts ==
    Dict(<<KV("data", Dict(<<KV("viewer", Dict(<<KV("id", Num(7)),
                                                  KV("flags", List(<<Str("a"), Str("b")>>)),
                                                  KV("carts", List(<<Dict(<<KV("sku", Str("x"))>>)>>))>>))>>))>>)

\* A response body as response.text() and json.loads see it: text that parses
\* to `value`, or (parses FALSE) text that cannot be read or parsed.
JsonText(v) == [parses |-> TRUE, value |-> v, error |-> ""]
Malformed == [parses |-> FALSE, value |-> Null, error |-> "Expecting value: line 1 column 1 (char 0)"]

GraphqlUrl == "https://api.example/GraphQL?operationName=FilteredProducts"
OtherUrl == "https://shop.example/static/app.js"

Response(u, txt) == [url |-> u, status |-> 200, text |-> txt]

\* The response events one site's pages may cause.  Three sites: one with
\* out-of-stock and unreadable responses and other traffic, one whose pages
\* differ from one another, one with product-free and odd payloads.
Sites ==
    { {Response(GraphqlUrl, JsonText(BodyTwoProducts)),
       Response(GraphqlUrl, JsonText(BodyOutOfStock)),
       Response(GraphqlUrl, Malformed),
       Response(GraphqlUrl, JsonText(Dict(<<>>))),
       Response(OtherUrl, JsonText(BodyTwoProducts))},
      {Response(GraphqlUrl, JsonText(BodyOneProduct)),
       Response(GraphqlUrl, JsonText(BodyOnePreroll)),
       Response(GraphqlUrl, JsonText(BodyOneEdible))},
      {Response(GraphqlUrl, JsonText(BodyTwoProducts)),
       Response(GraphqlUrl, JsonText(BodyNoProducts)),
       Response(GraphqlUrl, JsonText(BodyUnhashablePrice))} }

\* ------------------------------------- scraping/dutchie_parser.py: cells

\* The cells of the parser's rows: None, a str, a float (m / 10^e, with no
\* trailing zero in the fraction) or NaN.
NoneCell == [t |-> "none", s |-> "", m |-> 0, e |-> 0]
StrCell(x) == [t |-> "str", s |-> x, m |-> 0, e |-> 0]
NaNCell == [t |-> "nan", s |-> "", m |-> 0, e |-> 0]

RECURSIVE Float(_, _)
Float(m, e) ==
    IF e > 0 /\ m % 10 = 0 THEN Float(m \div 10, e - 1)
    ELSE [t |-> "float", s |-> "", m |-> m, e |-> e]

IsDigit(c) == \E d \in 1..10 : CharAt(DigitChars, d) = c

\* The longest run of digits of str that starts at position i.
RECURSIVE DigitRun(_, _)
DigitRun(str, i) ==
    IF i <= Len(str) /\ IsDigit(CharAt(str, i))
    THEN CharAt(str, i) \o DigitRun(str, i + 1)
    ELSE ""

\* re.search(r"\d+\.?\d*", str) and float(m.group(0)): [found, value].
DecimalSearch(str) ==
    IF \A i \in 1..Len(str) : ~IsDigit(CharAt(str, i))
    THEN [found |-> FALSE, value |-> NoneCell]
    ELSE LET p == Min({i \in 1..Len(str) : IsDigit(CharAt(str, i))})
             whole == DigitRun(str, p)
             q == p + Len(whole)
             frac == IF q <= Len(str) /\ CharAt(str, q) = "."
                     THEN DigitRun(str, q + 1) ELSE ""
         IN  [found |-> TRUE,
              value |-> Float(DigitsToNat(whole \o frac), Len(frac))]

\* str.replace(",", "")
RECURSIVE WithoutCommas(_)
WithoutCommas(str) ==
    IF str = "" THEN ""
    ELSE (IF CharAt(str, 1) = "," THEN "" ELSE CharAt(str, 1))
         \o WithoutCommas(SubSeq(str, 2, Len(str)))

\* ----------------------------------- scraping/dutchie_parser.py: fields

_NAME_KEYS == {"name", "title", "productname", "product_name", "displayname"}

_PRICE_KEYS ==
    {"price", "baseprice", "unitprice", "amount", "cost", "discountedprice",
     "saleprice", "listprice"}

_THC_KEYS == {"thc", "thccontent", "thcpercentage", "thcmax", "thcmin", "thclevel"}

_CATEGORY_KEYS == {"category", "type", "producttype", "subcategory", "kind", "menutype"}

\* The position of the first member of obj.items that `hit` accepts (the
\* loops run `for k, v in obj.items()`); 0 when there is none.
FirstHit(obj, hit(_)) ==
    LET hits == {i \in 1..Len(obj.items) : hit(obj.items[i])}
    IN  IF hits = {} THEN 0 ELSE Min(hits)

\* _extract_name(obj): the first name field that is a str of more than one
\* character once stripped.
NameHit(kv) ==
    /\ Lower(kv.k) \in _NAME_KEYS
    /\ kv.val.t = "str"
    /\ Len(Strip(kv.val.s)) > 1

_extract_name(obj) ==
    LET i == FirstHit(obj, NameHit)
    IN  IF i = 0 THEN NoneCell ELSE StrCell(Strip(obj.items[i].val.s))

\* _extract_price(obj): the first price field that is a number above zero
\* (a bool is an int) or a str holding a decimal number.
PriceHit(kv) ==
    /\ Lower(kv.k) \in _PRICE_KEYS
    /\ \/ kv.val.t \in {"num", "bool"} /\ kv.val.n > 0
       \/ kv.val.t = "str" /\ DecimalSearch(WithoutCommas(kv.val.s)).found

_extract_price(obj) ==
    LET i == FirstHit(obj, PriceHit)
    IN  IF i = 0 THEN NoneCell
        ELSE IF obj.items[i].val.t = "str"
        THEN DecimalSearch(WithoutCommas(obj.items[i].val.s)).value
        ELSE Float(obj.items[i].val.n, 0)

\* _extract_thc(obj): the first THC field that is a number or a str holding
\* a decimal number.
ThcHit(kv) ==
    /\ Lower(kv.k) \in _THC_KEYS
    /\ \/ kv.val.t \in {"num", "bool"}
       \/ kv.val.t = "str" /\ DecimalSearch(kv.val.s).found

_extract_thc(obj) ==
    LET i == FirstHit(obj, ThcHit)
    IN  IF i = 0 THEN NoneCell
        ELSE IF obj.items[i].val.t = "str"
        THEN DecimalSearch(obj.items[i].val.s).value
        ELSE Float(obj.items[i].val.n, 0)

\* _extract_category(obj): the first category field that is a non-blank str,
\* or a dict whose name (or title) is a str.
CategoryInner(v) == Or2(Get(v, "name"), Get(v, "title"))

CategoryHit(kv) ==
    /\ Lower(kv.k) \in _CATEGORY_KEYS
    /\ \/ kv.val.t = "str" /\ Strip(kv.val.s) # ""
       \/ /\ kv.val.t = "dict"
          /\ Truthy(CategoryInner(kv.val))
          /\ CategoryInner(kv.val).t = "str"

_extract_category(obj) ==
    LET i == FirstHit(obj, CategoryHit)
    IN  IF i = 0 THEN NoneCell
        ELSE IF obj.items[i].val.t = "str" THEN StrCell(Strip(obj.items[i].val.s))
        ELSE StrCell(Strip(CategoryInner(obj.items[i].val).s))

\* ----------------------------------- scraping/dutchie_parser.py: search

\* The max_depth default of _search_for_products.
search_max_depth == 8

\* _search_for_products(obj, depth): the product-like dicts below obj, a
\* dict before what its values hold, in document order.
RECURSIVE _search_for_products(_, _), SearchItems(_, _, _)
_search_for_products(obj, depth) ==
    IF depth > search_max_depth THEN <<>>
    ELSE IF obj.t = "dict"
    THEN (IF _extract_name(obj).t = "str"
          THEN <<[Product |-> _extract_name(obj), Category |-> _extract_category(obj),
                  Price |-> _extract_price(obj), THC |-> _extract_thc(obj)]>>
          ELSE <<>>)
         \o SearchItems(obj, 1, depth)
    ELSE IF obj.t = "list" THEN SearchItems(obj, 1, depth)
    ELSE <<>>

\* The results of the members i.. of obj, each searched one level deeper; a
\* dict's scalar members are skipped (what the search returns for them in a
\* list is empty as well).
SearchItems(obj, i, depth) ==
    IF i > Len(obj.items) THEN <<>>
    ELSE _search_for_products(obj.items[i].val, depth + 1)
         \o SearchItems(obj, i + 1, depth)

\* ------------------------------- scraping/dutchie_parser.py: the table

ParserColumns == <<"Product", "Category", "Price", "THC", "Source">>

\* source_label of a payload whose url is src_url
source_label(src_url) ==
    IF Len(src_url) > 60
    THEN "Dutchie API (" \o SubSeq(src_url, 1, 57) \o "...)"
    ELSE "Dutchie API (" \o src_url \o ")"

\* payload.get("url", "Dutchie API")
PayloadUrl(payload) ==
    IF HasKey(payload, "url") THEN Get(payload, "url").s ELSE "Dutchie API"

\* A mutation of KeepNew: the key of an appended row is not remembered.
RECURSIVE KeepNewForgetsKey(_, _, _, _, _)
KeepNewForgetsKey(found, i, label, rows, seen) ==
    IF i > Len(found) THEN [rows |-> rows, seen_keys |-> seen]
    ELSE LET p == found[i]
         IN  IF <<p.Product, p.Price>> \in seen
             THEN KeepNewForgetsKey(found, i + 1, label, rows, seen)
             ELSE KeepNewForgetsKey(found, i + 1, label,
                          Append(rows, [Product |-> p.Product, Category |-> p.Category,
                                        Price |-> p.Price, THC |-> p.THC,
                                        Source |-> StrCell(label)]),
                          seen)

\* The inner loop of parse_dutchie_responses over found[i..]: [rows, seen_keys].
RECURSIVE KeepNew(_, _, _, _, _)
KeepNew(found, i, label, rows, seen) ==
    IF i > Len(found) THEN [rows |-> rows, seen_keys |-> seen]
    ELSE LET p == found[i]
             dedup_key == <<p.Product, p.Price>>
         IN  IF dedup_key \in seen THEN KeepNew(found, i + 1, label, rows, seen)
             ELSE KeepNew(found, i + 1, label,
                          Append(rows, [Product |-> p.Product, Category |-> p.Category,
                                        Price |-> p.Price, THC |-> p.THC,
                                        Source |-> StrCell(label)]),
                          seen \cup {dedup_key})

\* The outer loop of parse_dutchie_responses over payloads.items[i..].
RECURSIVE ParseFrom(_, _, _, _)
ParseFrom(payloads, i, rows, seen) ==
    IF i > Len(payloads.items) THEN rows
    ELSE LET payload == payloads.items[i].val
             data == Get(payload, "data")
         IN  IF data.t = "null" THEN ParseFrom(payloads, i + 1, rows, seen)
             ELSE LET kept == KeepNew(_search_for_products(data, 0), 1,
                                      source_label(PayloadUrl(payload)), rows, seen)
                  IN  ParseFrom(payloads, i + 1, kept.rows, kept.seen_keys)

\* pd.to_numeric(column, errors="coerce") of one cell of a float-or-None column
CoerceCell(c) == IF c.t = "float" THEN c ELSE NaNCell

\* parse_dutchie_responses(payloads): the DataFrame as [columns, rows].
parse_dutchie_responses(payloads) ==
    LET rows == ParseFrom(payloads, 1, <<>>, {})
    IN  [columns |-> ParserColumns,
         rows |-> [i \in 1..Len(rows) |->
                     [rows[i] EXCEPT !.Price = CoerceCell(@), !.THC = CoerceCell(@)]]]

\* ------------------------------------------------ app.py: engine detection

\* urlparse(url).netloc of an absolute URL: what lies between "//" and the
\* next "/", "?" or "#".
RECURSIVE UntilPathStart(_)
UntilPathStart(str) ==
    IF str = "" \/ CharAt(str, 1) \in {"/", "?", "#"} THEN ""
    ELSE CharAt(str, 1) \o UntilPathStart(SubSeq(str, 2, Len(str)))

Netloc(u) ==
    IF ~Contains(u, "//") THEN ""
    ELSE LET p == Min({i \in 1..(Len(u) - 1) : SubSeq(u, i, i + 1) = "//"})
         IN  UntilPathStart(SubSeq(u, p + 2, Len(u)))

dutchie_signals ==
    {"dutchie.com", "dtche[", "dtche%5b", "\"dtche\"", "window.dtche", "dutchie-embed",
     "dutchie_embed", "plus.dutchie", "src=\"https://dutchie", "src='https://dutchie",
     "dutchie/graphql", "menu.dutchie"}

\* detect_engine(url, html)
detect_engine(u, html) ==
    LET netloc == Lower(Netloc(u))
        lower == Lower(html)
    IN  IF Contains(netloc, "dutchie") \/ Contains(netloc, "plus.dutchie") THEN "dutchie"
        ELSE IF Contains(netloc, "iheartjane") \/ Contains(netloc, "jane.menu") THEN "jane"
        ELSE IF Contains(netloc, "weedmaps") THEN "weedmaps"
        ELSE IF \E sig \in dutchie_signals : Contains(lower, sig) THEN "dutchie"
        ELSE IF \/ Contains(lower, "iheartjane.com")
                \/ Contains(lower, "jane-root")
                \/ Contains(lower, "data-jane-") THEN "jane"
        ELSE IF Contains(lower, "weedmaps.com") \/ Contains(lower, "wm-menu") THEN "weedmaps"
        ELSE IF \/ Contains(lower, "dispenseapp.com")
                \/ Contains(lower, "dispense.io")
                \/ Contains(lower, "\"dispenseapp\"") THEN "dispense"
        ELSE IF Contains(lower, "tymber") THEN "tymber"
        ELSE "generic"

\* ------------------------------------------- app.py: what the scan meets

\* The url arguments tried.
MenuUrls == {"https://shop.example/menu", "https://www.iheartjane.com/stores/7"}

\* What fetch_html can return: the page's static HTML, "" or None.
None == [none |-> TRUE, text |-> ""]
Text(x) == [none |-> FALSE, text |-> x]

StaticPages ==
    { None,
      Text(""),
      Text("<html><body>Menu</body></html>"),
      Text("<script src=https://dutchie.com/embed.js></script>"),
      Text("<div id=jane-root></div>"),
      Text("<div class=WM-Menu></div>"),
      Text("<a href=https://dispense.io/shop>Shop</a>"),
      Text("<footer>Powered by Tymber</footer>") }

\* A captured response as browser_fetch builds it.
BrowserEntry(u, body) ==
    Dict(<<KV("url", Str(u)), KV("status", Num(200)),
           KV("content_type", Str("application/json")), KV("json", body),
           KV("data", body), KV("text_snippet", Null)>>)

\* How a call of browser_fetch(url) can end: with (html, captured, final_url)
\* or with an exception (the call is made inside try/except Exception).
Returned(bhtml, captured, final) ==
    [raises |-> FALSE, exc |-> "", bhtml |-> bhtml, browser_payloads |-> captured,
     final_url |-> final]

Raised(exc) ==
    [raises |-> TRUE, exc |-> exc, bhtml |-> "", browser_payloads |-> Null, final_url |-> ""]

MissingBinaryError == "Executable doesn't exist at /home/user/.local/share/ms-playwright/chromium"
OtherBrowserError == "Target page, context or browser has been closed"

BrowserFetchOutcomes(u) ==
    { Returned("", List(<<>>), u),
      Returned("<html><body>Rendered menu</body></html>",
               List(<<BrowserEntry(GraphqlUrl, BodyTwoProducts)>>), u \o "/redirected"),
      Returned("<script>window.dtche = {}</script>",
               List(<<BrowserEntry(GraphqlUrl, BodyNoProducts)>>), u),
      Raised(MissingBinaryError),
      Raised(OtherBrowserError) }

\* is_missing_browser_error(exc)
is_missing_browser_error(exc) == Contains(exc, "Executable doesn't exist")

\* The head of the warning shown for a missing browser binary.
_PLAYWRIGHT_MISSING_BINARY_WARNING == "**Playwright Chromium binary not found.**"

\* A DataFrame: its columns and its rows.
EmptyFrame == [columns |-> <<>>, rows |-> <<>>]

\* debug_info as crawl_dutchie creates it.
EmptyDebugInfo ==
    [captured_count |-> 0, captured_urls |-> <<>>, categories |-> <<>>,
     per_page_counts |-> <<>>, parse_notes |-> <<>>, graphql_details |-> <<>>]

\* What crawl_dutchie(url, menu_type) can hand back: (df, debug_info).
CrawlResults ==
    { [df |-> EmptyFrame,
       debug |-> [EmptyDebugInfo EXCEPT
                    !.parse_notes = <<"No categories discovered", "No in-stock rows found">>]],
      [df |-> [columns |-> ParserColumns,
               rows |-> parse_dutchie_responses(
                            List(<<BrowserEntry(GraphqlUrl, BodyTwoProducts)>>)).rows],
       debug |-> [EmptyDebugInfo EXCEPT
                    !.captured_count = 1,
                    !.captured_urls = <<GraphqlUrl>>,
                    !.categories = <<"Flower">>]] }

\* What the HTML parsers (fetch_menu_*) and the OCR fallback can hand back.
ParsedFrames ==
    { EmptyFrame,
      [columns |-> ParserColumns,
       rows |-> <<[Product |-> StrCell("Blue Dream"), Category |-> NoneCell,
                   Price |-> Float(10, 0), THC |-> NaNCell,
                   Source |-> StrCell("HTML")]>>] }

\* ---------------------------------------- app.py: fetch_competitor_menu

\* debug_info as fetch_competitor_menu creates it.
FetchDebugInfo(u) ==
    [final_url |-> u, engine_initial |-> "None", engine_final |-> "None",
     browser_used |-> FALSE, captured_count |-> 0, captured_urls |-> <<>>,
     parse_notes |-> <<>>, categories |-> <<>>, per_page_counts |-> <<>>,
     graphql_details |-> <<>>]

\* The call of fetch_competitor_menu(url, use_browser) before its first line.
\* browser_called and browser_out are history: whether browser_fetch was
\* called and how that call ended.
FetchFrame(u, use) ==
    [pc |-> "start", url |-> u, use_browser |-> use, html |-> "", engine |-> "None",
     js_heavy |-> FALSE, browser_payloads |-> Null, bhtml |-> "",
     final_url_bound |-> FALSE, final_url |-> "",
     debug_info |-> FetchDebugInfo(u), df |-> EmptyFrame,
     st_warnings |-> <<>>, raised |-> "",
     browser_called |-> FALSE, browser_out |-> Returned("", Null, "")]

JsHeavyEngines == {"dutchie", "jane", "weedmaps", "dispense"}

\* `return df, engine, debug_info`
FetchReturn(f, df, engine) == [f EXCEPT !.pc = "returned", !.df = df, !.engine = engine]

\* ------------------------------------------------------------ the age gate

_AGE_GATE_TEXTS ==
    <<"i'm 21", "im 21", "i am 21", "i am 21+", "over 21", "21+", "yes, i'm 21",
      "yes i'm 21", "i agree", "enter site", "enter the site", "confirm age",
      "verify age", "i am of legal age", "yes, i am", "yes i am", "yes", "enter">>

_AGE_GATE_SELECTORS ==
    <<"[class*='age-gate'] button", "[class*='agegate'] button",
      "[class*='age_gate'] button", "[id*='age-gate'] button",
      "[id*='agegate'] button", "[class*='age-verification'] button",
      "[class*='ageVerification'] button", ".age-gate-button",
      "button[data-testid*='age']", "button[aria-label*='21']",
      "button[aria-label*='age']">>

\* for tag in ["button", "a", "[role='button']"]
AgeGateTags == <<"button", "a", "[role='button']">>

\* What the two loops look up, in the order they look it up: every selector,
\* then every text with every tag (the text loop is the outer one).
AgeGateProbes ==
    [i \in 1..Len(_AGE_GATE_SELECTORS) |->
        [strategy |-> "selector", find |-> _AGE_GATE_SELECTORS[i]]]
    \o [j \in 1..(Len(_AGE_GATE_TEXTS) * Len(AgeGateTags)) |->
        [strategy |-> "text",
         find |-> AgeGateTags[((j - 1) % Len(AgeGateTags)) + 1] \o ":has-text('"
                  \o _AGE_GATE_TEXTS[((j - 1) \div Len(AgeGateTags)) + 1] \o "')"]]

\* What looking up probe i on the page does.  "absent": query_selector gives
\* None, is_visible(timeout) gives False; "hidden": the element exists and
\* is_visible() gives False; "visible": it is visible and click succeeds;
\* "lookup_raises": query_selector or is_visible raises; "click_raises": it
\* is visible and click raises (nothing is clicked).
ProbeOutcomes == {"absent", "hidden", "visible", "lookup_raises", "click_raises"}

\* A page is given by the probes that find something on it: [at, is].
OutcomeAt(page, i) ==
    IF \E el \in page : el.at = i THEN (CHOOSE el \in page : el.at = i).is ELSE "absent"

\* The probes i..j, in order.
ProbesFromTo(i, j) == [k \in 1..(j - i + 1) |-> i + k - 1]

\* The probes from i on that find a visible element whose click succeeds.
VisibleFrom(page, i) ==
    {j \in i..Len(AgeGateProbes) : OutcomeAt(page, j) = "visible"}

\* A mutation of BypassFrom: a successful click does not end the attempt.
BypassFromKeepsGoing(page, i, probed, clicked) ==
    LET vis == VisibleFrom(page, i) IN
    [probed |-> probed \o ProbesFromTo(i, Len(AgeGateProbes)),
     clicked |-> clicked \o [k \in 1..Cardinality(vis) |->
                                CHOOSE j \in vis : Cardinality({q \in vis : q <= j}) = k]]

\* The two loops from probe i on: a visible element is clicked and the
\* function returns; anything else, an exception included, goes on to the
\* next probe.  [probed, clicked]: the probes looked up, the probes clicked.
BypassFrom(page, i, probed, clicked) ==
    LET vis == VisibleFrom(page, i) IN
    IF vis = {}
    THEN [probed |-> probed \o ProbesFromTo(i, Len(AgeGateProbes)), clicked |-> clicked]
    ELSE [probed |-> probed \o ProbesFromTo(i, Min(vis)),
          clicked |-> Append(clicked, Min(vis))]

AgeGateFunctions == {"_bypass_age_gate", "try_bypass_age_gate"}

\* One call of _bypass_age_gate(page) or try_bypass_age_gate(page): the second
\* returns True after a click and False at the end, the first returns None.
BypassAgeGate(page, fn) ==
    LET run == BypassFrom(page, 1, <<>>, <<>>) IN
    [page |-> page, fn |-> fn, attempted |-> TRUE, at_nav |-> 0,
     probed |-> run.probed, clicked |-> run.clicked, raised |-> FALSE,
     returned |-> IF fn = "_bypass_age_gate" THEN Null ELSE Bool(run.clicked # <<>>)]

\* No call of either function yet, for this page.
GateNotTried(page, fn) ==
    [page |-> page, fn |-> fn, attempted |-> FALSE, at_nav |-> 0,
     probed |-> <<>>, clicked |-> <<>>, raised |-> FALSE, returned |-> Null]

\* ----------------------------------------------------- _discover_categories

\* The spellings of the parameter name the two patterns accept, re.I aside:
\* dtche(?:%5B|\[)category(?:%5D|\])=
CategoryParams ==
    {"dtche%5bcategory%5d=", "dtche%5bcategory]=", "dtche[category%5d=", "dtche[category]="}

\* [^&"'\s]+ for an href, [^&"'\s<>]+ for the page HTML.
HrefStops == {"&", "\"", "'", " "}
HtmlStops == HrefStops \cup {"<", ">"}

\* The longest run of characters outside `stops` that starts at position i.
RECURSIVE TokenRun(_, _, _)
TokenRun(str, i, stops) ==
    IF i <= Len(str) /\ CharAt(str, i) \notin stops
    THEN CharAt(str, i) \o TokenRun(str, i + 1, stops)
    ELSE ""

\* The match of the pattern that starts at position i: [found, token, next].
CategoryMatchAt(str, i, stops) ==
    LET heads == {c \in CategoryParams :
                    /\ i + Len(c) - 1 <= Len(str)
                    /\ Lower(SubSeq(str, i, i + Len(c) - 1)) = c
                    /\ TokenRun(str, i + Len(c), stops) # ""}
    IN  IF heads = {} THEN [found |-> FALSE, token |-> "", next |-> i + 1]
        ELSE LET c == CHOOSE h \in heads : TRUE
                 token == TokenRun(str, i + Len(c), stops)
             IN  [found |-> TRUE, token |-> token, next |-> i + Len(c) + Len(token)]

\* re.finditer: the tokens of the matches from position i on, left to right.
RECURSIVE CategoryMatches(_, _, _)
CategoryMatches(str, i, stops) ==
    IF i > Len(str) THEN <<>>
    ELSE LET m == CategoryMatchAt(str, i, stops) IN
         IF m.found THEN <<m.token>> \o CategoryMatches(str, m.next, stops)
         ELSE CategoryMatches(str, i + 1, stops)

\* re.sub(r"%20", " ", token)
RECURSIVE Unescape20(_)
Unescape20(str) ==
    IF str = "" THEN ""
    ELSE IF Len(str) >= 3 /\ SubSeq(str, 1, 3) = "%20"
         THEN " " \o Unescape20(SubSeq(str, 4, Len(str)))
         ELSE CharAt(str, 1) \o Unescape20(SubSeq(str, 2, Len(str)))

\* cat = re.sub(r"%20", " ", m.group(1)).strip()
CategoryOf(token) == Strip(Unescape20(token))

\* re.search on one href (None reads as ""): the token of the first match,
\* as a category; "" when there is no match.
HrefCategory(href) ==
    LET found == CategoryMatches(IF href = Null THEN "" ELSE href.s, 1, HrefStops) IN
    IF found = <<>> THEN "" ELSE CategoryOf(found[1])

\* A mutation of AddCategory: `seen` is not consulted.
AddCategoryUnseen(found, cat) == IF cat # "" THEN Append(found, cat) ELSE found

\* if cat and cat not in seen: categories.append(cat); seen.add(cat)
AddCategory(found, cat) ==
    IF cat # "" /\ \A k \in 1..Len(found) : found[k] # cat
    THEN Append(found, cat) ELSE found

\* The categories after the cats i.. have been offered, in order.
RECURSIVE AddCategories(_, _, _)
AddCategories(found, cats, i) ==
    IF i > Len(cats) THEN found
    ELSE AddCategories(AddCategory(found, cats[i]), cats, i + 1)

\* The categories of the tokens found, in order.
CategoriesOf(tokens) == [k \in 1..Len(tokens) |-> CategoryOf(tokens[k])]

\* The categories the HTML scan offers, in order.
HtmlCategories(html) == CategoriesOf(CategoryMatches(html, 1, HtmlStops))

\* _discover_categories(page).  The page: the hrefs of its dtche links, how
\* many of them are read before the link scan raises (all, when it does
\* not), its HTML, and whether page.content() raises.
_discover_categories(page) ==
    LET from_links ==
            AddCategories(<<>>, [k \in 1..page.links_read |-> HrefCategory(page.hrefs[k])], 1)
    IN  IF page.content_raises THEN from_links
        ELSE AddCategories(from_links, HtmlCategories(page.html), 1)

\* ------------------------------------------------------------------- state

VARIABLES
    node,       \* the product node handed to the stock gate and the row builder
    phase,      \* "input", "checked" (gate applied), "built" (rows built)
    in_stock,   \* what _is_in_stock returned for node
    built,      \* what _build_rows_from_product returned for node
    HAS_PLAYWRIGHT,   \* whether the playwright import succeeded
    site_categories,  \* the category tokens the rendered menu page carries
    site_responses,   \* the response events the site's pages may cause
    pc,               \* where crawl_dutchie is
    menu_type,        \* the menu_type argument, once resolved
    playwright,       \* the sync_playwright() context: "none", "running", "stopped"
    browser,          \* "none", "open", "closed"
    listener,         \* page.on("response", _on_response) has been called
    init_script,      \* context.add_init_script(...) has been called
    captured,         \* the shared captured-response list
    debug_info,       \* the diagnostics record
    all_rows,         \* the accumulated result rows
    seen_keys,        \* the dedup keys of the whole crawl
    categories,       \* the discovered categories
    ci,               \* index of the category being crawled (cat = categories[ci])
    pg,               \* the page of the category being crawled
    cap_before,       \* len(captured) when the current navigation started
    prev_signatures,  \* the page signatures seen in the current category
    cat_total,        \* rows added for the current category
    page_products,    \* the rows built from the current page's new captures
    returned,         \* the rows of the returned DataFrame
    navs,             \* every page.goto issued, in order: [cat, pg, url]
    appended_during,  \* history: for each captured entry, Len(navs) when appended
    page_log,         \* history: one record per page whose captures were collected
    timed_out,        \* history: the navigations (indices of navs) that timed out
    payload,          \* the captured entry handed to _extract_products_from_payload
    products,         \* what _extract_products_from_payload returned for payload
    batch,            \* the rows handed to _dedup_and_add on its own
    feeds,            \* history: what each such call returned, [added, raised]
    HAS_BROWSER_HELPERS,  \* app.py: whether the scraping helpers were imported
    fetch,            \* the call of fetch_competitor_menu: its locals and position
    payloads,         \* the payloads handed to parse_dutchie_responses on its own
    parsed_df,        \* what parse_dutchie_responses returned for payloads
    gate,             \* the age-gate attempt: the page, what was probed and clicked
    discovery         \* _discover_categories on its own: the page, what it returned

rowVars == <<node, phase, in_stock, built>>

unitVars == <<payload, products, batch, feeds>>

crawlVars ==
    <<HAS_PLAYWRIGHT, site_categories, site_responses, pc, menu_type, playwright, browser, listener,
      init_script, captured, debug_info, all_rows, seen_keys, categories, ci, pg,
      cap_before, prev_signatures, cat_total, page_products, returned, navs,
      appended_during, page_log, timed_out>>

appVars == <<HAS_BROWSER_HELPERS, fetch, payloads, parsed_df>>

pageVars == <<gate, discovery>>

vars == <<rowVars, crawlVars, unitVars, appVars, pageVars>>

\* The state of a crawl about to run its first statement.
CrawlAtStart ==
    /\ pc = "start"
    /\ menu_type = Null
    /\ playwright = "none"
    /\ browser = "none"
    /\ listener = FALSE
    /\ init_script = FALSE
    /\ captured = <<>>
    /\ debug_info = EmptyDebugInfo
    /\ all_rows = <<>>
    /\ seen_keys = {}
    /\ categories = <<>>
    /\ ci = 0
    /\ pg = 0
    /\ cap_before = 0
    /\ prev_signatures = {}
    /\ cat_total = 0
    /\ page_products = <<>>
    /\ returned = <<>>
    /\ navs = <<>>
    /\ appended_during = <<>>
    /\ page_log = <<>>
    /\ timed_out = {}

NoNode ==
    /\ node = Null
    /\ phase = "none"
    /\ in_stock = FALSE
    /\ built = <<>>

\* An entry of `captured` holding the parsed body under "json" and "data".
Entry(body) == [json |-> body, data |-> body]

NoPayload ==
    /\ payload = Entry(Null)
    /\ products = <<>>

NoBatch ==
    /\ batch = <<>>
    /\ feeds = <<>>

\* fetch_competitor_menu is not called.
NoFetch ==
    /\ HAS_BROWSER_HELPERS = FALSE
    /\ fetch = FetchFrame("", FALSE)
    /\ payloads = List(<<>>)
    /\ parsed_df = EmptyFrame

\* The page carries no age gate and no attempt has been made.
NoGate ==
    /\ gate = GateNotTried({}, "_bypass_age_gate")
    /\ discovery = [page |-> [hrefs |-> <<>>, links_read |-> 0, html |-> "",
                              content_raises |-> FALSE],
                    done |-> FALSE, categories |-> <<>>]

\* ---------------------------------------------------------- initial states

Init ==
    /\ NoNode
    /\ NoPayload
    /\ NoBatch
    /\ HAS_PLAYWRIGHT \in BOOLEAN
    /\ site_categories \in CategoryLists
    /\ site_responses \in Sites
    /\ NoFetch
    /\ NoGate
    /\ CrawlAtStart

InitRows ==
    /\ node \in ProductNodes
    /\ phase = "input"
    /\ in_stock = FALSE
    /\ built = <<>>
    /\ HAS_PLAYWRIGHT = TRUE
    /\ site_categories = <<>>
    /\ site_responses = {}
    /\ NoFetch
    /\ NoGate
    /\ CrawlAtStart
    /\ NoPayload
    /\ NoBatch

\* ----------------------------------------------- the stock gate, the builder

\* if not _is_in_stock(prod): the gate of the page loop
StockGate ==
    /\ phase = "input"
    /\ in_stock' = _is_in_stock(node)
    /\ phase' = "checked"
    /\ UNCHANGED <<node, built>>
    /\ UNCHANGED <<crawlVars, unitVars, appVars, pageVars>>

\* _build_rows_from_product(prod, url, menu_type)
BuildRows ==
    /\ phase = "checked"
    /\ built' = _build_rows_from_product(node, url, _detect_menu_type(url))
    /\ phase' = "built"
    /\ UNCHANGED <<node, in_stock>>
    /\ UNCHANGED <<crawlVars, unitVars, appVars, pageVars>>

\* ------------------------------------------------------------ crawl_dutchie

Note(kind, cat, page, count) == [kind |-> kind, cat |-> cat, pg |-> page, n |-> count]

AddNote(info, note) == [info EXCEPT !.parse_notes = Append(@, note)]

\* debug_info["per_page_counts"][key] = count
SetCount(info, key, count) ==
    [info EXCEPT !.per_page_counts =
        [k \in (DOMAIN @) \cup {key} |-> IF k = key THEN count ELSE @[k]]]

crawlRest == <<site_categories, site_responses, HAS_PLAYWRIGHT>>

\* menu_type is resolved; without playwright: a note and an empty table.
StartWithoutPlaywright ==
    /\ pc = "start"
    /\ ~HAS_PLAYWRIGHT
    /\ menu_type' = _detect_menu_type(url)
    /\ debug_info' = AddNote(debug_info, Note("playwright_not_available", "", 0, 0))
    /\ returned' = <<>>
    /\ pc' = "done"
    /\ UNCHANGED <<playwright, browser, listener, init_script, captured, all_rows,
                   seen_keys, categories, ci, pg, cap_before, prev_signatures,
                   cat_total, navs, appended_during, page_log, page_products>>
    /\ UNCHANGED <<rowVars, unitVars, appVars, crawlRest, timed_out, pageVars>>

StartWithPlaywright ==
    /\ pc = "start"
    /\ HAS_PLAYWRIGHT
    /\ menu_type' = _detect_menu_type(url)
    /\ pc' = "launch"
    /\ UNCHANGED <<playwright, browser, listener, init_script, captured, debug_info,
                   all_rows, seen_keys, categories, ci, pg, cap_before,
                   prev_signatures, cat_total, returned, navs, appended_during,
                   page_log, page_products>>
    /\ UNCHANGED <<rowVars, unitVars, appVars, crawlRest, timed_out, pageVars>>

\* A mutation of LaunchBrowser: page.on("response", ...) is not called.
LaunchBrowserWithoutListener ==
    /\ pc = "launch"
    /\ playwright' = "running"
    /\ browser' = "open"
    /\ init_script' = TRUE
    /\ listener' = FALSE
    /\ pc' = "initial_goto"
    /\ UNCHANGED <<menu_type, captured, debug_info, all_rows, seen_keys, categories,
                   ci, pg, cap_before, prev_signatures, cat_total, returned, navs,
                   appended_during, page_log, page_products>>
    /\ UNCHANGED <<rowVars, unitVars, appVars, crawlRest, timed_out, pageVars>>

\* sync_playwright(), launch, new_context, add_init_script, new_page, page.on
LaunchBrowser ==
    /\ pc = "launch"
    /\ playwright' = "running"
    /\ browser' = "open"
    /\ init_script' = TRUE
    /\ listener' = TRUE
    /\ pc' = "initial_goto"
    /\ UNCHANGED <<menu_type, captured, debug_info, all_rows, seen_keys, categories,
                   ci, pg, cap_before, prev_signatures, cat_total, returned, navs,
                   appended_during, page_log, page_products>>
    /\ UNCHANGED <<rowVars, unitVars, appVars, crawlRest, timed_out, pageVars>>

\* The browser cannot be started: sync_playwright() or launch raises.
LaunchFails ==
    /\ pc = "launch"
    /\ \E started \in BOOLEAN : playwright' = IF started THEN "running" ELSE "none"
    /\ pc' = "except"
    /\ UNCHANGED <<menu_type, browser, listener, init_script, captured, debug_info,
                   all_rows, seen_keys, categories, ci, pg, cap_before,
                   prev_signatures, cat_total, returned, navs, appended_during,
                   page_log, page_products>>
    /\ UNCHANGED <<rowVars, unitVars, appVars, crawlRest, timed_out, pageVars>>

\* page.goto(url, ...) is issued: the initial page load.
InitialGoto ==
    /\ pc = "initial_goto"
    /\ navs' = Append(navs, [cat |-> "", pg |-> 0, url |-> url])
    /\ pc' = "initial_loading"
    /\ UNCHANGED <<menu_type, playwright, browser, listener, init_script, captured,
                   debug_info, all_rows, seen_keys, categories, ci, pg, cap_before,
                   prev_signatures, cat_total, returned, appended_during, page_log, page_products>>
    /\ UNCHANGED <<rowVars, unitVars, appVars, crawlRest, timed_out, pageVars>>

\* page.goto returns; the waits, _bypass_age_gate(page) and _wait_for_menu
\* follow.
InitialLoaded ==
    /\ pc = "initial_loading"
    /\ pc' = "initial_settle"
    /\ gate' = [BypassAgeGate(gate.page, "_bypass_age_gate") EXCEPT !.at_nav = Len(navs)]
    /\ UNCHANGED discovery
    /\ UNCHANGED <<menu_type, playwright, browser, listener, init_script, captured,
                   debug_info, all_rows, seen_keys, categories, ci, pg, cap_before,
                   prev_signatures, cat_total, returned, navs, appended_during,
                   page_log, page_products>>
    /\ UNCHANGED <<rowVars, unitVars, appVars, crawlRest, timed_out>>

\* A page.goto raises (navigation timeout): control leaves the try block.
GotoTimesOut ==
    /\ pc \in {"initial_loading", "page_loading"}
    /\ pc' = "except"
    /\ timed_out' = timed_out \cup {Len(navs)}
    /\ UNCHANGED <<menu_type, playwright, browser, listener, init_script, captured,
                   debug_info, all_rows, seen_keys, categories, ci, pg, cap_before,
                   prev_signatures, cat_total, returned, navs, appended_during,
                   page_log, page_products>>
    /\ UNCHANGED <<rowVars, unitVars, appVars, crawlRest, pageVars>>

\* categories = _discover_categories(page), and the note about them.
DiscoverCategories ==
    /\ pc = "initial_settle"
    /\ categories' = site_categories
    /\ debug_info' = AddNote([debug_info EXCEPT !.categories = site_categories],
                             Note("discovered", "", 0, Len(site_categories)))
    /\ IF site_categories = <<>>
       THEN pc' = "initial_parse" /\ UNCHANGED <<ci, pg>>
       ELSE pc' = "page_start" /\ ci' = 1 /\ pg' = 1
    /\ cat_total' = 0
    /\ prev_signatures' = {}
    /\ UNCHANGED <<menu_type, playwright, browser, listener, init_script, captured,
                   all_rows, seen_keys, cap_before, returned, navs, appended_during,
                   page_log, page_products>>
    /\ UNCHANGED <<rowVars, unitVars, appVars, crawlRest, timed_out, pageVars>>

\* The pass over `captured` when no category was found, from entry i on:
\* [all_rows, seen_keys, count, raised].  ParseFound continues with the rows
\* of entry i, ParseKept with what _dedup_and_add made of them.
RECURSIVE ParseCaptured(_, _, _, _, _), ParseFound(_, _, _, _, _, _), ParseKept(_, _, _, _)

\* A mutation of ParseCaptured: the first buffered response is skipped.
ParseCapturedSkipsFirst(entries, i, held, seen, count) ==
    IF i >= Len(entries)
    THEN [all_rows |-> held, seen_keys |-> seen, count |-> count, raised |-> FALSE]
    ELSE ParseFound(RowsOfPayload(entries[i + 1], url, menu_type), entries, i + 1, held, seen, count)

ParseCaptured(entries, i, held, seen, count) ==
    IF i > Len(entries)
    THEN [all_rows |-> held, seen_keys |-> seen, count |-> count, raised |-> FALSE]
    ELSE ParseFound(RowsOfPayload(entries[i], url, menu_type), entries, i, held, seen, count)

ParseFound(found, entries, i, held, seen, count) ==
    IF found.raised
    THEN [all_rows |-> held, seen_keys |-> seen, count |-> count, raised |-> TRUE]
    ELSE ParseKept(_dedup_and_add(found.rows, 1, held, seen), entries, i, count)

ParseKept(kept, entries, i, count) ==
    IF kept.raised
    THEN [all_rows |-> kept.all_rows, seen_keys |-> kept.seen_keys,
          count |-> count, raised |-> TRUE]
    ELSE ParseCaptured(entries, i + 1, kept.all_rows, kept.seen_keys, count + kept.added)

\* No category: the responses of the initial load are parsed, once.
ParseInitial ==
    /\ pc = "initial_parse"
    /\ \E pass \in {ParseCaptured(captured, 1, all_rows, seen_keys, 0)} :
          /\ all_rows' = pass.all_rows
          /\ seen_keys' = pass.seen_keys
          /\ IF pass.raised
             THEN /\ pc' = "except"
                  /\ debug_info' = AddNote(debug_info, Note("no_categories", "", 0, 0))
             ELSE /\ pc' = "close"
                  /\ debug_info' = SetCount(AddNote(debug_info,
                                                    Note("no_categories", "", 0, 0)),
                                            "initial", pass.count)
    /\ UNCHANGED <<menu_type, playwright, browser, listener, init_script, captured,
                   categories, ci, pg, cap_before, prev_signatures, cat_total,
                   returned, navs, appended_during, page_log, page_products>>
    /\ UNCHANGED <<rowVars, unitVars, appVars, crawlRest, timed_out, pageVars>>

\* cap_before = len(captured); page.goto(_page_url(url, cat, pg), ...) is issued.
PageGoto ==
    /\ pc = "page_start"
    /\ cap_before' = Len(captured)
    /\ navs' = Append(navs, [cat |-> categories[ci], pg |-> pg,
                             url |-> _page_url(url, Str(categories[ci]), pg)])
    /\ pc' = "page_loading"
    /\ UNCHANGED <<menu_type, playwright, browser, listener, init_script, captured,
                   debug_info, all_rows, seen_keys, categories, ci, pg,
                   prev_signatures, cat_total, returned, appended_during, page_log, page_products>>
    /\ UNCHANGED <<rowVars, unitVars, appVars, crawlRest, timed_out, pageVars>>

\* page.goto returns; the waits and _wait_for_menu follow.
PageLoaded ==
    /\ pc = "page_loading"
    /\ pc' = "page_settle"
    /\ UNCHANGED <<menu_type, playwright, browser, listener, init_script, captured,
                   debug_info, all_rows, seen_keys, categories, ci, pg, cap_before,
                   prev_signatures, cat_total, returned, navs, appended_during,
                   page_log, page_products>>
    /\ UNCHANGED <<rowVars, unitVars, appVars, crawlRest, timed_out, pageVars>>

\* A mutation of NewCaptures: the whole buffer, not the part after cap_before.
NewCapturesAll(buffer, before) == buffer

\* new_captures = captured[cap_before:]
NewCaptures(buffer, before) == SubSeq(buffer, before + 1, Len(buffer))

\* A mutation of PageKey: the page number is left out of the key.
PageKeyWithoutNumber(cat, page) == cat \o "_page"

\* page_key = f"{cat}_page{pg}"
PageKey(cat, page) == cat \o "_page" \o NatToStr(page)

\* A mutation of IsEmptyPage: a page without rows is not noticed.
IsEmptyPageNever(rows) == FALSE

\* `not page_products`
IsEmptyPage(rows) == Len(rows) = 0

\* A mutation of IsRepeated: a repeated signature is not noticed.
IsRepeatedNever(sig, seen) == FALSE

\* `sig in prev_signatures`
IsRepeated(sig, seen) == sig \in seen

\* The responses captured during this navigation are turned into
\* page_products; an element that cannot be handled raises.
CollectPage ==
    /\ pc = "page_settle"
    /\ \E page \in {PageProducts(NewCaptures(captured, cap_before), 1, url, menu_type)} :
          /\ IF page.raised
             THEN pc' = "except" /\ page_products' = <<>>
             ELSE pc' = "page_eval" /\ page_products' = page.rows
          /\ page_log' = Append(page_log,
                          [cat |-> categories[ci], pg |-> pg, nav |-> Len(navs),
                           first |-> Len(captured) - Len(NewCaptures(captured, cap_before)) + 1,
                           last |-> Len(captured),
                           outcome |-> IF page.raised THEN "raised" ELSE "collected",
                           nrows |-> Len(page.rows), rows |-> page.rows, sig |-> {},
                           offered |-> 0, added |-> 0])
    /\ UNCHANGED <<menu_type, playwright, browser, listener, init_script, captured,
                   debug_info, all_rows, seen_keys, categories, ci, pg, cap_before,
                   prev_signatures, cat_total, returned, navs, appended_during>>
    /\ UNCHANGED <<rowVars, unitVars, appVars, crawlRest, timed_out, pageVars>>

\* The history record of the page being evaluated, with its outcome.
Logged(outcome, offered, added) ==
    [page_log EXCEPT ![Len(page_log)] =
        [@ EXCEPT !.outcome = outcome, !.sig = SignatureOf(page_products),
                  !.offered = offered, !.added = added]]

\* A mutation of LeaveCategory: the next category goes on from the page
\* number the last one reached.
LeaveCategoryKeepsPage(info, total, sigs) ==
    /\ debug_info' = AddNote(info, Note("category_total", categories[ci], 0, total))
    /\ IF ci < Len(categories)
       THEN /\ pc' = "page_start"
            /\ ci' = ci + 1
            /\ pg' = pg
            /\ cat_total' = 0
            /\ prev_signatures' = {}
       ELSE /\ pc' = "close"
            /\ cat_total' = total
            /\ prev_signatures' = sigs
            /\ UNCHANGED <<ci, pg>>

\* The inner loop is left: the category's note, then the next category or the end.
LeaveCategory(info, total, sigs) ==
    /\ debug_info' = AddNote(info, Note("category_total", categories[ci], 0, total))
    /\ IF ci < Len(categories)
       THEN /\ pc' = "page_start"
            /\ ci' = ci + 1
            /\ pg' = 1
            /\ cat_total' = 0
            /\ prev_signatures' = {}
       ELSE /\ pc' = "close"
            /\ cat_total' = total
            /\ prev_signatures' = sigs
            /\ UNCHANGED <<ci, pg>>

\* 0 products: note, zero count, break.
EvalPageEmpty ==
    /\ pc = "page_eval"
    /\ IsEmptyPage(page_products)
    /\ LeaveCategory(SetCount(AddNote(debug_info,
                                      Note("zero_products", categories[ci], pg, 0)),
                              PageKey(categories[ci], pg), 0),
                     cat_total, prev_signatures)
    /\ page_log' = Logged("empty", 0, 0)
    /\ UNCHANGED <<menu_type, playwright, browser, listener, init_script, captured,
                   all_rows, seen_keys, categories, cap_before, returned, navs,
                   appended_during, page_products>>
    /\ UNCHANGED <<rowVars, unitVars, appVars, crawlRest, timed_out, pageVars>>

\* Building the signature hashes a key whose price is a list or a dict: TypeError.
SignatureRaises ==
    /\ pc = "page_eval"
    /\ ~IsEmptyPage(page_products)
    /\ \E i \in 1..Len(page_products) : ~Hashable(page_products[i])
    /\ pc' = "except"
    /\ page_log' = Logged("raised", 0, 0)
    /\ UNCHANGED <<menu_type, playwright, browser, listener, init_script, captured,
                   debug_info, all_rows, seen_keys, categories, ci, pg, cap_before,
                   prev_signatures, cat_total, returned, navs, appended_during,
                   page_products>>
    /\ UNCHANGED <<rowVars, unitVars, appVars, crawlRest, timed_out, pageVars>>

\* Repeated signature: note, zero count, break.
EvalPageRepeated ==
    /\ pc = "page_eval"
    /\ ~IsEmptyPage(page_products)
    /\ \A i \in 1..Len(page_products) : Hashable(page_products[i])
    /\ IsRepeated(SignatureOf(page_products), prev_signatures)
    /\ LeaveCategory(SetCount(AddNote(debug_info,
                                      Note("repeated_signature", categories[ci], pg, 0)),
                              PageKey(categories[ci], pg), 0),
                     cat_total, prev_signatures)
    /\ page_log' = Logged("repeated", 0, 0)
    /\ UNCHANGED <<menu_type, playwright, browser, listener, init_script, captured,
                   all_rows, seen_keys, categories, cap_before, returned, navs,
                   appended_during, page_products>>
    /\ UNCHANGED <<rowVars, unitVars, appVars, crawlRest, timed_out, pageVars>>

\* A mutation of HasNextPage: the range runs one page too far.
HasNextPageOffByOne(page) == page <= max_pages

\* `for pg in range(1, max_pages + 1)`: whether the loop has a page after `page`.
HasNextPage(page) == page < max_pages

\* A new signature: it is recorded and the rows go to _dedup_and_add; then the
\* next page, or the end of the category after page max_pages.
EvalPageAccepted ==
    /\ pc = "page_eval"
    /\ ~IsEmptyPage(page_products)
    /\ \A i \in 1..Len(page_products) : Hashable(page_products[i])
    /\ ~IsRepeated(SignatureOf(page_products), prev_signatures)
    /\ \E kept \in {_dedup_and_add(page_products, 1, all_rows, seen_keys)} :
          /\ all_rows' = kept.all_rows
          /\ seen_keys' = kept.seen_keys
          /\ page_log' = Logged("accepted", Len(page_products), kept.added)
          /\ IF HasNextPage(pg)
             THEN /\ pg' = pg + 1
                  /\ pc' = "page_start"
                  /\ cat_total' = cat_total + kept.added
                  /\ debug_info' = SetCount(debug_info, PageKey(categories[ci], pg),
                                            kept.added)
                  /\ prev_signatures' = prev_signatures \cup {SignatureOf(page_products)}
                  /\ UNCHANGED ci
             ELSE LeaveCategory(SetCount(debug_info, PageKey(categories[ci], pg),
                                         kept.added),
                                cat_total + kept.added,
                                prev_signatures \cup {SignatureOf(page_products)})
    /\ UNCHANGED <<menu_type, playwright, browser, listener, init_script, captured,
                   categories, cap_before, returned, navs, appended_during,
                   page_products>>
    /\ UNCHANGED <<rowVars, unitVars, appVars, crawlRest, timed_out, pageVars>>

\* browser.close()
CloseBrowser ==
    /\ pc = "close"
    /\ browser' = "closed"
    /\ playwright' = "stopped"
    /\ pc' = "return"
    /\ UNCHANGED <<menu_type, listener, init_script, captured, debug_info, all_rows,
                   seen_keys, categories, ci, pg, cap_before, prev_signatures,
                   cat_total, returned, navs, appended_during, page_log, page_products>>
    /\ UNCHANGED <<rowVars, unitVars, appVars, crawlRest, timed_out, pageVars>>

\* A mutation of HandleException: the error is swallowed without a note.
HandleExceptionSilent ==
    /\ pc = "except"
    /\ playwright' = IF playwright = "running" THEN "stopped" ELSE playwright
    /\ pc' = "return"
    /\ UNCHANGED <<menu_type, browser, listener, init_script, captured, all_rows,
                   seen_keys, categories, ci, pg, cap_before, prev_signatures,
                   cat_total, returned, navs, appended_during, page_log, page_products,
                   debug_info>>
    /\ UNCHANGED <<rowVars, unitVars, appVars, crawlRest, timed_out, pageVars>>

\* A mutation of HandleException: the error is noted with the playwright
\* session, and the browser it owns, left running.
HandleExceptionLeavesSession ==
    /\ pc = "except"
    /\ debug_info' = AddNote(debug_info, Note("crawler_error", "", 0, 0))
    /\ pc' = "return"
    /\ UNCHANGED <<menu_type, playwright, browser, listener, init_script, captured, all_rows,
                   seen_keys, categories, ci, pg, cap_before, prev_signatures,
                   cat_total, returned, navs, appended_during, page_log, page_products>>
    /\ UNCHANGED <<rowVars, unitVars, appVars, crawlRest, timed_out, pageVars>>

\* except Exception as exc: the with block has been left, the error is noted.
HandleException ==
    /\ pc = "except"
    /\ playwright' = IF playwright = "running" THEN "stopped" ELSE playwright
    /\ debug_info' = AddNote(debug_info, Note("crawler_error", "", 0, 0))
    /\ pc' = "return"
    /\ UNCHANGED <<menu_type, browser, listener, init_script, captured, all_rows,
                   seen_keys, categories, ci, pg, cap_before, prev_signatures,
                   cat_total, returned, navs, appended_during, page_log, page_products>>
    /\ UNCHANGED <<rowVars, unitVars, appVars, crawlRest, timed_out, pageVars>>

\* A mutation of ReturnedRows: after an exception nothing is returned.
ReturnedRowsNoneAfterError(rows, info) ==
    IF \E i \in 1..Len(info.parse_notes) : info.parse_notes[i].kind = "crawler_error"
    THEN <<>>
    ELSE ResultTable(rows)

\* The rows of the DataFrame returned: none when all_rows is empty, else
\* all_rows with the Price column made numeric.
ReturnedRows(rows, info) == IF rows = <<>> THEN <<>> ELSE ResultTable(rows)

ReturnTable ==
    /\ pc = "return"
    /\ returned' = ReturnedRows(all_rows, debug_info)
    /\ pc' = "done"
    /\ UNCHANGED <<menu_type, playwright, browser, listener, init_script, captured,
                   debug_info, all_rows, seen_keys, categories, ci, pg, cap_before,
                   prev_signatures, cat_total, navs, appended_during, page_log, page_products>>
    /\ UNCHANGED <<rowVars, unitVars, appVars, crawlRest, timed_out, pageVars>>

\* ------------------------------------------------------------ _on_response

\* The main flow is inside a playwright call (goto, a wait, a page query):
\* the only points where the sync API dispatches response events.
Suspended == pc \in {"initial_loading", "initial_settle", "page_loading", "page_settle"}

\* "graphql" in url_lower or "operationname" in url_lower
IsGraphqlUrl(u) == Contains(Lower(u), "graphql") \/ Contains(Lower(u), "operationname")

\* A mutation of _on_response: a body that fails to parse is buffered too.
_on_response_keeps_failures(response) ==
    IF ~IsGraphqlUrl(response.url) \/ (response.text.parses /\ ~Truthy(response.text.value))
    THEN UNCHANGED <<captured, debug_info, appended_during>>
    ELSE /\ captured' = Append(captured,
                               [url |-> response.url, status |-> response.status,
                                json |-> response.text.value,
                                data |-> response.text.value])
         /\ appended_during' = Append(appended_during, Len(navs))
         /\ debug_info' = [debug_info EXCEPT
                              !.captured_count = @ + 1,
                              !.captured_urls = Append(@, response.url),
                              !.graphql_details =
                                  Append(@, [url |-> response.url,
                                             status |-> response.status,
                                             json_ok |-> response.text.parses,
                                             error |-> response.text.error])]

\* A mutation of _on_response: the URL of a buffered response is not listed.
_on_response_url_unlisted(response) ==
    IF ~IsGraphqlUrl(response.url)
    THEN UNCHANGED <<captured, debug_info, appended_during>>
    ELSE IF ~response.text.parses
    THEN /\ debug_info' = [debug_info EXCEPT !.graphql_details =
                              Append(@, [url |-> response.url, status |-> response.status,
                                         json_ok |-> FALSE,
                                         error |-> response.text.error])]
         /\ UNCHANGED <<captured, appended_during>>
    ELSE IF ~Truthy(response.text.value)
    THEN UNCHANGED <<captured, debug_info, appended_during>>
    ELSE /\ captured' = Append(captured,
                               [url |-> response.url, status |-> response.status,
                                json |-> response.text.value,
                                data |-> response.text.value])
         /\ appended_during' = Append(appended_during, Len(navs))
         /\ debug_info' = [debug_info EXCEPT
                              !.captured_count = @ + 1,
                              !.graphql_details =
                                  Append(@, [url |-> response.url,
                                             status |-> response.status,
                                             json_ok |-> TRUE])]

\* _on_response(response): other URLs are ignored; a body that cannot be read
\* or parsed is recorded in graphql_details only; a falsy body is dropped; any
\* other body is appended to captured and counted.
_on_response(response) ==
    IF ~IsGraphqlUrl(response.url)
    THEN UNCHANGED <<captured, debug_info, appended_during>>
    ELSE IF ~response.text.parses
    THEN /\ debug_info' = [debug_info EXCEPT !.graphql_details =
                              Append(@, [url |-> response.url, status |-> response.status,
                                         json_ok |-> FALSE,
                                         error |-> response.text.error])]
         /\ UNCHANGED <<captured, appended_during>>
    ELSE IF ~Truthy(response.text.value)
    THEN UNCHANGED <<captured, debug_info, appended_during>>
    ELSE /\ captured' = Append(captured,
                               [url |-> response.url, status |-> response.status,
                                json |-> response.text.value,
                                data |-> response.text.value])
         /\ appended_during' = Append(appended_during, Len(navs))
         /\ debug_info' = [debug_info EXCEPT
                              !.captured_count = @ + 1,
                              !.captured_urls = Append(@, response.url),
                              !.graphql_details =
                                  Append(@, [url |-> response.url,
                                             status |-> response.status,
                                             json_ok |-> TRUE])]

\* The browser delivers a response event while the main flow is suspended.
OnResponse ==
    /\ listener
    /\ Suspended
    /\ Len(debug_info.graphql_details) < MaxResponses
    /\ \E response \in site_responses : _on_response(response)
    /\ UNCHANGED <<menu_type, playwright, browser, listener, init_script, all_rows,
                   seen_keys, categories, ci, pg, cap_before, prev_signatures,
                   cat_total, returned, navs, page_log, page_products, pc>>
    /\ UNCHANGED <<rowVars, unitVars, appVars, crawlRest, timed_out, pageVars>>

\* ----------------------------------------------------------- specifications

Next ==
    \/ StartWithoutPlaywright
    \/ StartWithPlaywright
    \/ LaunchBrowser
    \/ LaunchFails
    \/ InitialGoto
    \/ InitialLoaded
    \/ GotoTimesOut
    \/ DiscoverCategories
    \/ ParseInitial
    \/ PageGoto
    \/ PageLoaded
    \/ CollectPage
    \/ SignatureRaises
    \/ EvalPageEmpty
    \/ EvalPageRepeated
    \/ EvalPageAccepted
    \/ CloseBrowser
    \/ HandleException
    \/ ReturnTable
    \/ OnResponse

Spec == Init /\ [][Next]_vars

NextRows == StockGate \/ BuildRows

SpecRows == InitRows /\ [][NextRows]_vars

\* ------------------------------------------------------- claims: the crawl

PagePcs == {"page_start", "page_loading", "page_settle", "page_eval"}

\* The page of log entry e has been evaluated by the stopping policy.
Evaluated(e) == page_log[e].outcome \in {"empty", "repeated", "accepted"}

\* No page after log entry e's page was requested in its category.
NoLaterPageRequested(e) ==
    \A n \in 1..Len(navs) :
        navs[n].cat = page_log[e].cat => navs[n].pg <= page_log[e].pg

\* C1: a page that yields zero rows gets a zero count, its category is left,
\* and no later page of that category is ever requested.
C1_EmptyPageStopsCategory ==
    \A e \in 1..Len(page_log) :
        (Evaluated(e) /\ page_log[e].nrows = 0) =>
            /\ PageKey(page_log[e].cat, page_log[e].pg) \in DOMAIN debug_info.per_page_counts
            /\ debug_info.per_page_counts[PageKey(page_log[e].cat, page_log[e].pg)] = 0
            /\ NoLaterPageRequested(e)
            /\ (pc \in PagePcs => categories[ci] # page_log[e].cat)

\* A crawl that ended after page 1 of a category came back without rows while
\* max_pages allowed more pages.
C1_Witness ==
    /\ pc = "done"
    /\ \E e \in 1..Len(page_log) :
          /\ page_log[e].outcome = "empty"
          /\ page_log[e].pg < max_pages
          /\ page_log[e].last >= page_log[e].first

\* C2: a page whose signature equals that of an earlier page of the same
\* category offers no row to the deduplicator, adds none, and no later page
\* of the category is requested.
C2_RepeatedSignatureStops ==
    \A e \in 1..Len(page_log) : \A d \in 1..(e - 1) :
        (/\ Evaluated(e) /\ Evaluated(d)
         /\ page_log[d].cat = page_log[e].cat
         /\ page_log[d].sig = page_log[e].sig) =>
            /\ page_log[e].offered = 0
            /\ page_log[e].added = 0
            /\ NoLaterPageRequested(e)

\* Page 2 repeated page 1's rows and the crawl ended, with max_pages allowing
\* a third page.
C2_Witness ==
    /\ pc = "done"
    /\ \E e \in 1..Len(page_log) :
          /\ page_log[e].outcome = "repeated"
          /\ page_log[e].pg = 2
          /\ page_log[e].pg < max_pages
          /\ page_log[e].nrows > 0

\* C3: no two accumulated rows share a (Product, Price, Size) key, and
\* seen_keys is exactly the set of keys of the accumulated rows.
C3_NoDuplicateKeys ==
    /\ \A i, j \in 1..Len(all_rows) :
          i # j => KeyOf(all_rows[i]) # KeyOf(all_rows[j])
    /\ seen_keys = {KeyOf(all_rows[i]) : i \in 1..Len(all_rows)}

\* A second category offered rows whose keys the first category had already
\* added.
C3_Witness ==
    \E e \in 1..Len(page_log) : \E d \in 1..(e - 1) :
        /\ page_log[d].cat # page_log[e].cat
        /\ page_log[d].added > 0
        /\ page_log[e].outcome = "accepted"
        /\ page_log[e].offered > page_log[e].added

\* C4: the captures processed for a page are exactly the buffer entries
\* appended while its navigation was the latest one issued, and no buffer
\* entry is processed for two pages.
C4_CapturesAttributedOnce ==
    /\ \A e \in 1..Len(page_log) : \A idx \in 1..Len(captured) :
          (page_log[e].first <= idx /\ idx <= page_log[e].last)
              <=> appended_during[idx] = page_log[e].nav
    /\ \A d, e \in 1..Len(page_log) :
          d # e => (page_log[d].last < page_log[e].first
                    \/ page_log[e].last < page_log[d].first)

\* Responses arrived during the initial load and during two page navigations.
C4_Witness ==
    /\ Len(page_log) >= 2
    /\ \E idx \in 1..Len(captured) : appended_during[idx] = 1
    /\ \A e \in 1..2 : page_log[e].last >= page_log[e].first

\* C5: after a page navigation timed out, every discovered category has still
\* been navigated by the end of the crawl, and the page counts as zero.
C5_TimeoutAbandonsOnlyCategory ==
    (pc = "done" /\ \E t \in timed_out : navs[t].pg >= 1) =>
        /\ \A c \in 1..Len(categories) :
              \E n \in 1..Len(navs) : navs[n].cat = categories[c]
        /\ \A t \in timed_out :
              /\ PageKey(navs[t].cat, navs[t].pg) \in DOMAIN debug_info.per_page_counts
              /\ debug_info.per_page_counts[PageKey(navs[t].cat, navs[t].pg)] = 0

RECURSIVE SumAdded(_)
SumAdded(log) == IF log = <<>> THEN 0 ELSE Head(log).added + SumAdded(Tail(log))

HasNote(kind) ==
    \E i \in 1..Len(debug_info.parse_notes) : debug_info.parse_notes[i].kind = kind

\* C6: once the browser was launched, the returned table holds every row
\* accepted into the result, whether or not the crawl failed later: as many
\* rows as were accepted, in order, each unchanged but for the numeric
\* coercion of its Price.
C6_FailureKeepsAcceptedRows ==
    (pc = "done" /\ browser # "none") =>
        /\ Len(returned) = Len(all_rows)
        /\ categories # <<>> => Len(returned) = SumAdded(page_log)
        /\ \A i \in 1..Len(returned) :
              /\ [returned[i] EXCEPT !.Price = Null] = [all_rows[i] EXCEPT !.Price = Null]
              /\ all_rows[i].Price.t = "num" => returned[i].Price = all_rows[i].Price

\* The crawl failed after rows had been accepted, and returned.
C6_Witness ==
    /\ pc = "done"
    /\ browser # "none"
    /\ HasNote("crawler_error")
    /\ Len(all_rows) > 0
    /\ Len(returned) > 0

\* C7: when the browser never started, nothing was navigated, no row exists,
\* and the crawl ends with an empty table and a note about the failure.
C7_SetupFailureGivesEmptyResult ==
    /\ browser = "none" => (navs = <<>> /\ all_rows = <<>>)
    /\ (pc = "done" /\ browser = "none") =>
          /\ returned = <<>>
          /\ HasNote("playwright_not_available") \/ HasNote("crawler_error")

\* The browser failed to launch and the crawl has returned.
C7_Witness ==
    /\ pc = "done"
    /\ HAS_PLAYWRIGHT
    /\ browser = "none"

\* ------------------------------------------- claims: stock gate, row builder

\* The members of node's variants list.
Members == VariantsOf(node).items

\* d carries no recognized stock-bearing field, on itself or on any variant.
StockFree(d) ==
    /\ StockKeyPositions(d) = {}
    /\ \A i \in 1..Len(VariantsOf(d).items) :
          VariantsOf(d).items[i].val.t = "dict"
              => StockKeyPositions(VariantsOf(d).items[i].val) = {}

\* d without its member at position i.
Without(d, i) ==
    Dict([j \in 1..(Len(d.items) - 1) |-> IF j < i THEN d.items[j] ELSE d.items[j + 1]])

\* The positions at which d holds quantityAvailable: 0 as its only stock field.
ZeroQuantityAt(d) ==
    {i \in 1..Len(d.items) :
        d.items[i] = KV("quantityAvailable", Num(0)) /\ StockFree(Without(d, i))}

\* C8: a node with no recognized stock field passes the stock gate (and, when
\* it is a named product without variants, yields its row); the same node with
\* quantityAvailable: 0 added fails the gate and yields no row.
C8_StockDefaultInclusion ==
    phase = "built" =>
        /\ StockFree(node) =>
              /\ in_stock
              /\ RowsOfProduct(node, url, _detect_menu_type(url)) = built
              /\ (HasUsableName(node) /\ ~HasVariantList(node)) => Len(built) = 1
        /\ \A i \in ZeroQuantityAt(node) :
              /\ ~in_stock
              /\ RowsOfProduct(node, url, _detect_menu_type(url)) = <<>>
              /\ _is_in_stock(Without(node, i))

\* A named node whose only stock field is quantityAvailable: 0 was gated out
\* although rows could be built from it.
C8_Witness ==
    /\ phase = "built"
    /\ ZeroQuantityAt(node) # {}
    /\ ~in_stock
    /\ built # <<>>

\* The positions of the variant records that pass the per-variant stock check.
Passing ==
    {i \in 1..Len(Members) : Members[i].val.t = "dict" /\ VariantInStock(Members[i].val)}

\* The r-th smallest element of S.
NthOf(S, r) == CHOOSE i \in S : Cardinality({q \in S : q <= i}) = r

\* C9: a named product with a variants list yields one row per variant that
\* passes the per-variant stock check, in variant order, each with the
\* parent's name, brand and THC and the variant's own price and size.
C9_VariantFanOut ==
    (phase = "built" /\ HasUsableName(node) /\ HasVariantList(node)) =>
        /\ Len(built) = Cardinality(Passing)
        /\ \A r \in 1..Len(built) :
              /\ built[r].Product = Str(Strip(RawName(node).s))
              /\ built[r].Brand = ProductBrand(node)
              /\ built[r].THC = _extract_cannabinoid(node, "THC")
              /\ built[r].Price = VariantPrice(Members[NthOf(Passing, r)].val)
              /\ built[r].Size = VariantSize(Members[NthOf(Passing, r)].val)

\* Three variant records, two of them in stock, gave two rows with different
\* prices under a brand and a THC value.
C9_Witness ==
    /\ phase = "built"
    /\ HasUsableName(node)
    /\ Len(Members) = 3
    /\ \A i \in 1..3 : Members[i].val.t = "dict"
    /\ Cardinality(Passing) = 2
    /\ Len(built) = 2
    /\ built[1].Price # built[2].Price
    /\ built[1].Brand = Str("Acme")
    /\ built[2].THC = Str("22")

\* C10: a named product with a non-empty variants list none of whose variants
\* passes the stock check yields no row; the product-level row is what a
\* product without a variants list yields.
C10_NoFallbackOnceVariantsExist ==
    (phase = "built" /\ HasUsableName(node)) =>
        /\ (HasVariantList(node) /\ Passing = {}) => built = <<>>
        /\ ~HasVariantList(node) =>
              built = <<ProductLevelRow(node, url, _detect_menu_type(url))>>

\* A named, in-stock product whose two variant records both fail the check
\* gave no row.
C10_Witness ==
    /\ phase = "built"
    /\ HasUsableName(node)
    /\ in_stock
    /\ Len(Members) = 2
    /\ \A i \in 1..2 : Members[i].val.t = "dict"
    /\ Passing = {}
    /\ built = <<>>

\* ------------------------------------------- claims: stock strings

\* The string values of a stock field tried, in several spellings.
StockStringsTried ==
    {"false", "False", "0", "out_of_stock", "OUT_OF_STOCK", "out of stock",
     "Out Of Stock", "unavailable", "Unavailable", "no", "No", "NO",
     "in stock", "In Stock", "yes", "true", "1", "available", "low", ""}

\* The spellings of a stock field's key tried.
StockKeysTried == {"inStock", "stockStatus", "Available", "quantity"}

\* A named product holding the stock string on itself, and one holding it on
\* its only variant.
StockStringNodes ==
    {Dict(<<KV("name", Str("Blue Dream")), KV(k, Str(x)), KV("price", Num(8))>>) :
        k \in StockKeysTried, x \in StockStringsTried}
    \cup
    {Dict(<<KV("name", Str("Blue Dream")),
            KV("variants", List(<<Dict(<<KV("price", Num(10)), KV(k, Str(x))>>)>>))>>) :
        k \in StockKeysTried, x \in StockStringsTried}

InitStockStrings ==
    /\ node \in StockStringNodes
    /\ phase = "input"
    /\ in_stock = FALSE
    /\ built = <<>>
    /\ HAS_PLAYWRIGHT = TRUE
    /\ site_categories = <<>>
    /\ site_responses = {}
    /\ NoFetch
    /\ NoGate
    /\ CrawlAtStart
    /\ NoPayload
    /\ NoBatch

SpecStockStrings == InitStockStrings /\ [][NextRows]_vars

\* The six strings that mean out of stock.
SixOutOfStockStrings ==
    {"false", "0", "out_of_stock", "out of stock", "unavailable", "no"}

\* The value of d's first stock field.
FirstStockValue(d) == d.items[Min(StockKeyPositions(d))].val

\* C11: a string stock field reads out of stock exactly when its lower-cased
\* value is one of the six strings, on the product (the gate rejects it) and
\* on a variant (no row is emitted for it).
C11_StockStringsSameAtBothLevels ==
    phase = "built" =>
        /\ StockKeyPositions(node) # {} =>
              (in_stock <=> Lower(FirstStockValue(node).s) \notin SixOutOfStockStrings)
        /\ (StockKeyPositions(node) = {} /\ HasVariantList(node)) =>
              (built = <<>>
                  <=> Lower(FirstStockValue(Members[1].val).s) \in SixOutOfStockStrings)

\* ------------------------------------------- claims: fallback extraction

\* Deepest nesting of the product list inside the documents tried.
MaxNesting == 8

\* A list of 5 dicts, each with a "title" field, and no other list inside.
TitleList ==
    List(<<Dict(<<KV("title", Str("Blue Dream")), KV("price", Num(10))>>),
           Dict(<<KV("title", Str("OG Kush"))>>),
           Dict(<<KV("title", Str("Gummies")), KV("brand", Str("Acme"))>>),
           Dict(<<KV("title", Str("Vape Cart"))>>),
           Dict(<<KV("title", Str("Preroll")), KV("name", Null)>>)>>)

\* The keys the list is wrapped in, innermost first.
WrapKeys == <<"records", "page", "catalog", "store", "viewer", "node", "edge", "root", "env">>

\* v below d nested dicts, each holding the scalar members of `noise` too.
RECURSIVE Nested(_, _, _)
Nested(v, d, noise) ==
    IF d = 0 THEN v
    ELSE Nested(Dict(noise \o <<KV(WrapKeys[d], v)>>), d - 1, noise)

\* Documents of unrecognized shape holding TitleList as their only list: at
\* the top, or below 1..MaxNesting dicts, under several top-level keys and
\* beside scalar members.
Documents ==
    {TitleList}
    \cup {Dict(before \o <<KV(top, Nested(TitleList, d - 1, noise))>> \o after) :
            d \in 1..MaxNesting,
            top \in {"result", "response", "items"},
            noise \in {<<>>, <<KV("count", Num(5))>>},
            before \in {<<>>, <<KV("errors", Null)>>},
            after \in {<<>>, <<KV("extensions", Dict(<<KV("cost", Num(1))>>))>>}}

\* The number of dicts above the first list inside v (MaxNesting + 2 if none).
RECURSIVE ListDepth(_)
ListDepth(v) ==
    IF v.t = "list" THEN 0
    ELSE IF v.t # "dict" THEN MaxNesting + 2
    ELSE LET below == {ListDepth(v.items[i].val) : i \in 1..Len(v.items)}
         IN  IF below = {} THEN MaxNesting + 2
             ELSE 1 + (CHOOSE x \in below : \A y \in below : x <= y)

InitExtract ==
    /\ NoNode
    /\ payload \in {Entry(doc) : doc \in Documents}
    /\ products = <<>>
    /\ NoBatch
    /\ HAS_PLAYWRIGHT = TRUE
    /\ site_categories = <<>>
    /\ site_responses = {}
    /\ NoFetch
    /\ NoGate
    /\ CrawlAtStart

\* products = _extract_products_from_payload(payload)
ExtractProducts ==
    /\ phase = "none"
    /\ products' = _extract_products_from_payload(payload)
    /\ phase' = "extracted"
    /\ UNCHANGED <<node, in_stock, built, payload, batch, feeds, appVars, pageVars>>
    /\ UNCHANGED crawlVars

SpecExtract == InitExtract /\ [][ExtractProducts]_vars

\* The five members of TitleList.
TitleProducts == [i \in 1..5 |-> TitleList.items[i].val]

\* C12 as stated: extraction returns the list of 5 titled dicts wherever it
\* sits in the document.
C12_FallbackFindsListAnywhere ==
    phase = "extracted" => products = TitleProducts

\* C12 as amended: extraction returns the list when the document is an object
\* and the list sits at most max_depth dicts below it; beyond that, and for a
\* document that is itself the list, the result is empty.
C12_FallbackFindsListWithinDepth ==
    phase = "extracted" =>
        /\ (payload.json.t = "dict" /\ ListDepth(payload.json) <= max_depth)
              => products = TitleProducts
        /\ (payload.json.t # "dict" \/ ListDepth(payload.json) > max_depth)
              => products = <<>>

\* The list was found at the deepest level the search reaches.
C12_Witness ==
    /\ phase = "extracted"
    /\ payload.json.t = "dict"
    /\ ListDepth(payload.json) = max_depth
    /\ products = TitleProducts

\* ------------------------------------------- claims: end-to-end scenario

\* The bodies captured while navigation n was the latest one issued are
\* exactly `bodies`, in order.
Got(n, bodies) ==
    LET idx == {i \in 1..Len(captured) : appended_during[i] = n} IN
    /\ Cardinality(idx) = Len(bodies)
    /\ \A i \in idx :
          captured[i].json = bodies[1 + Cardinality({q \in idx : q < i})]

\* The scenario: Flower and Vape discovered; Flower page 1 returns a product
\* with 2 variants and one without variants, both in stock; Flower page 2
\* returns nothing; Vape page 1 returns one product whose only variant is out
\* of stock; no navigation times out.
Scenario ==
    /\ categories = <<"Flower", "Vape">>
    /\ timed_out = {}
    /\ \A n \in 1..Len(navs) :
          /\ (navs[n].cat = "Flower" /\ navs[n].pg = 1) => Got(n, <<BodyTwoProducts>>)
          /\ (navs[n].cat = "Flower" /\ navs[n].pg = 2) => Got(n, <<>>)
          /\ (navs[n].cat = "Vape" /\ navs[n].pg = 1) => Got(n, <<BodyOutOfStock>>)

\* The (category, page) of every navigation after the initial load.
PagesRequested == [n \in 1..(Len(navs) - 1) |-> <<navs[n + 1].cat, navs[n + 1].pg>>]

\* C13: in the scenario the crawl requests exactly Flower page 1, Flower
\* page 2 and Vape page 1, and the final table has exactly 3 rows.
C13_EndToEndScenario ==
    (pc = "done" /\ Scenario) =>
        /\ PagesRequested = << <<"Flower", 1>>, <<"Flower", 2>>, <<"Vape", 1>> >>
        /\ Len(returned) = 3

\* The scenario ran to its end: both categories stopped on an empty page.
C13_Witness ==
    /\ pc = "done"
    /\ Scenario
    /\ Len(page_log) = 3
    /\ page_log[1].nrows = 3
    /\ page_log[3].last = page_log[3].first
    /\ Len(returned) = 3

\* The positions in all_rows of the rows added for log entry e.
RowsAddedFor(e) ==
    (SumAdded(SubSeq(page_log, 1, e - 1)) + 1)..SumAdded(SubSeq(page_log, 1, e))

\* C14 as stated: every row added while category C was crawled carries
\* Category = C in the final table.
C14_RowsTaggedWithCrawledCategory ==
    pc = "done" =>
        \A e \in 1..Len(page_log) : \A i \in RowsAddedFor(e) :
            returned[i].Category = Str(page_log[e].cat)

\* The category the payloads of the modelled site give each product.
CarriedCategory(name) ==
    CASE name = "Blue Dream" -> Str("Flower")
      [] name = "Vape Cart" -> Str("Vape")
      [] name = "Edible Bar" -> Str("Edibles")
      [] OTHER -> Null

\* C14 as amended: every row of the final table carries the category its own
\* product node carries in the payload (none when the node has none),
\* whichever category was being crawled when the row was added.
C14_RowsTaggedWithCarriedCategory ==
    pc = "done" =>
        \A e \in 1..Len(page_log) : \A i \in RowsAddedFor(e) :
            returned[i].Category = CarriedCategory(returned[i].Product.s)

\* Rows of a product the payload files under Flower were added while Vape was
\* crawled, beside a row without a category.
C14_Witness ==
    /\ pc = "done"
    /\ \E e \in 1..Len(page_log) :
          /\ page_log[e].cat = "Vape"
          /\ \E i \in RowsAddedFor(e) : returned[i].Category = Str("Flower")
          /\ \E i \in RowsAddedFor(e) : returned[i].Category = Null

\* ------------------------------------------- claims: page cap

\* C15: no page beyond max_pages is requested, no page of a category is
\* requested twice, the crawl navigates at most 1 + |categories| * max_pages
\* times, and a category is left once its page max_pages has been evaluated.
C15_AtMostMaxPagesPerCategory ==
    /\ \A n \in 1..Len(navs) : navs[n].pg <= max_pages
    /\ \A m, n \in 1..Len(navs) :
          m # n => <<navs[m].cat, navs[m].pg>> # <<navs[n].cat, navs[n].pg>>
    /\ Len(navs) <= 1 + Len(site_categories) * max_pages
    /\ \A e \in 1..Len(page_log) :
          (Evaluated(e) /\ page_log[e].pg = max_pages) =>
              /\ NoLaterPageRequested(e)
              /\ (pc \in PagePcs => categories[ci] # page_log[e].cat)

\* Every page of a category, up to page max_pages, added new rows, and the
\* crawl ended.
C15_Witness ==
    /\ pc = "done"
    /\ \E c \in 1..Len(categories) : \A q \in 1..max_pages :
          \E e \in 1..Len(page_log) :
              /\ page_log[e].cat = categories[c]
              /\ page_log[e].pg = q
              /\ page_log[e].outcome = "accepted"
              /\ page_log[e].added > 0

\* ------------------------------------------- claims: response capture

\* The positions of graphql_details that record a parsed body.
ParsedAt == {i \in 1..Len(debug_info.graphql_details) : debug_info.graphql_details[i].json_ok}

\* The positions of graphql_details that record a failure.
FailedAt == (1..Len(debug_info.graphql_details)) \ ParsedAt

\* C16: a response whose body cannot be read or parsed is not buffered and is
\* recorded with its URL and the failure reason; every parsed response is
\* buffered, in arrival order, and counted.
C16_ParseFailureDropsOnlyThatResponse ==
    /\ Len(captured) = Cardinality(ParsedAt)
    /\ debug_info.captured_count = Len(captured)
    /\ Len(debug_info.captured_urls) = Len(captured)
    /\ \A k \in 1..Len(captured) : Truthy(captured[k].json)
    /\ \A i \in ParsedAt :
          captured[Cardinality({q \in ParsedAt : q <= i})].url
              = debug_info.graphql_details[i].url
    /\ \A i \in FailedAt :
          /\ IsGraphqlUrl(debug_info.graphql_details[i].url)
          /\ debug_info.graphql_details[i].error = Malformed.error

\* An unreadable response arrived between the two parsed responses of one
\* page, and the page's rows were built from both.
C16_Witness ==
    /\ pc = "done"
    /\ Len(debug_info.graphql_details) = 3
    /\ ParsedAt = {1, 3}
    /\ Len(captured) = 2
    /\ \E e \in 1..Len(page_log) :
          /\ page_log[e].first = 1
          /\ page_log[e].last = 2
          /\ page_log[e].nrows = 6
          /\ page_log[e].added = 3

\* ------------------------------------------- claims: product-free payloads

\* The bodies buffered for the page of log entry e.
BodiesOf(e) == {captured[k].json : k \in page_log[e].first..page_log[e].last}

\* How many buffered entries of log entry e's page hold `body`.
CountOf(e, body) ==
    Cardinality({k \in page_log[e].first..page_log[e].last : captured[k].json = body})

\* C17: a payload without product-like nodes gives an empty product list and
\* no rows and raises nothing: a page holding only such payloads is an empty
\* page, the other payloads of a page give their rows as usual, and the
\* crawl goes on to the remaining categories without an error.
C17_ProductFreePayloadIsNoError ==
    /\ \A k \in 1..Len(captured) :
          captured[k].json = BodyNoProducts =>
              /\ _extract_products_from_payload(captured[k]) = <<>>
              /\ RowsOfPayload(captured[k], url, menu_type) = [rows |-> <<>>, raised |-> FALSE]
    /\ \A e \in 1..Len(page_log) :
          (BodyNoProducts \in BodiesOf(e) /\ BodiesOf(e) \subseteq {BodyNoProducts, BodyTwoProducts}) =>
              /\ page_log[e].outcome # "raised"
              /\ page_log[e].nrows = 3 * CountOf(e, BodyTwoProducts)
    /\ (/\ pc = "done"
        /\ browser # "none"
        /\ timed_out = {}
        /\ \A k \in 1..Len(captured) : captured[k].json \in {BodyNoProducts, BodyTwoProducts}) =>
          /\ ~HasNote("crawler_error")
          /\ \A c \in 1..Len(categories) :
                \E n \in 1..Len(navs) : navs[n].cat = categories[c]

\* A page received a product-free payload and then a payload with products,
\* whose rows were accepted; the crawl went on to the next category and ended.
C17_Witness ==
    /\ pc = "done"
    /\ Len(categories) = 2
    /\ page_log # <<>>
    /\ page_log[1].first = 1
    /\ page_log[1].last = 2
    /\ captured[1].json = BodyNoProducts
    /\ captured[2].json = BodyTwoProducts
    /\ page_log[1].added = 3
    /\ \E n \in 1..Len(navs) : navs[n].cat = categories[2]
    /\ ~HasNote("crawler_error")

\* ------------------------------------------- claims: no category discovered

\* How many parse notes of this kind were recorded.
NotesOf(kind) ==
    Cardinality({i \in 1..Len(debug_info.parse_notes) : debug_info.parse_notes[i].kind = kind})

\* The dedup keys of the rows the buffered payloads give.
KeysOfCaptured ==
    UNION {{KeyOf(RowsOfPayload(captured[k], url, menu_type).rows[r]) :
               r \in 1..Len(RowsOfPayload(captured[k], url, menu_type).rows)} :
           k \in 1..Len(captured)}

\* C18: when discovery finds no category, the initial load stays the only
\* navigation and discovery ran once; the single pass takes the rows of
\* exactly the responses buffered during the initial load, each key once, and
\* records the number of rows added under the one key "initial".
C18_NoCategoryMeansSinglePass ==
    /\ (categories = <<>> /\ site_categories = <<>>) => (Len(navs) <= 1 /\ page_log = <<>>)
    /\ NotesOf("discovered") <= 1
    /\ (pc = "done" /\ NotesOf("discovered") = 1 /\ categories = <<>>) =>
          /\ Len(navs) = 1
          /\ NotesOf("no_categories") = 1
          /\ \A k \in 1..Len(captured) : appended_during[k] = 1
          /\ ~HasNote("crawler_error") =>
                /\ DOMAIN debug_info.per_page_counts = {"initial"}
                /\ debug_info.per_page_counts["initial"] = Len(all_rows)
                /\ seen_keys = KeysOfCaptured
                /\ Len(returned) = Cardinality(KeysOfCaptured)

\* No category was found; the same payload had arrived twice during the
\* initial load beside an out-of-stock one, and its rows were counted once.
C18_Witness ==
    /\ pc = "done"
    /\ categories = <<>>
    /\ Len(captured) = 3
    /\ captured[1].json = BodyTwoProducts
    /\ captured[2].json = BodyOutOfStock
    /\ captured[3].json = BodyTwoProducts
    /\ DOMAIN debug_info.per_page_counts = {"initial"}
    /\ debug_info.per_page_counts["initial"] = 3
    /\ Len(returned) = 3

\* ------------------------------------------- claims: navigation URLs

\* The menu URL without its query string.
CanonicalUrl == "https://shop.example/rec/menu"

\* The category tokens as they appear percent-encoded in a URL.
EncodedCategory ==
    ("Flower" :> "Flower") @@ ("Vape" :> "Vape") @@ ("Edibles" :> "Edibles")
        @@ ("Pre Rolls" :> "Pre%20Rolls")

PageDigits == <<"1", "2", "3", "4", "5", "6">>

\* C19 as stated: the URL of page 1 of a category is the unparameterized base
\* URL; the URL of a later page carries the category and the page number.
C19_ParametersOnlyAfterPageOne ==
    \A n \in 2..Len(navs) :
        navs[n].url =
            IF navs[n].pg = 1 THEN CanonicalUrl
            ELSE CanonicalUrl \o "?dtche%5Bcategory%5D=" \o EncodedCategory[navs[n].cat]
                     \o "&dtche%5Bpage%5D=" \o PageDigits[navs[n].pg]

\* C19 as amended: every page URL of a category is the base URL, its query
\* string stripped, with the encoded category; only the page parameter is
\* left out on page 1.
C19_CategoryAlwaysPageAfterOne ==
    \A n \in 2..Len(navs) :
        navs[n].url =
            CanonicalUrl \o "?dtche%5Bcategory%5D=" \o EncodedCategory[navs[n].cat]
                \o (IF navs[n].pg = 1 THEN ""
                    ELSE "&dtche%5Bpage%5D=" \o PageDigits[navs[n].pg])

\* Pages 1 and 2 of a category whose token holds a space were requested.
C19_Witness ==
    \E m, n \in 2..Len(navs) :
        /\ navs[m].cat = "Pre Rolls" /\ navs[m].pg = 1
        /\ navs[n].cat = "Pre Rolls" /\ navs[n].pg = 2
        /\ navs[m].url = "https://shop.example/rec/menu?dtche%5Bcategory%5D=Pre%20Rolls"
        /\ navs[n].url =
              "https://shop.example/rec/menu?dtche%5Bcategory%5D=Pre%20Rolls&dtche%5Bpage%5D=2"

\* ------------------------------------------- claims: dedup idempotence

\* Longest batch of rows fed to the deduplicator.
MaxBatch == 2

\* A product whose two variants differ only in price, True against 1.
ProdF ==
    Dict(<<KV("name", Str("Blue Dream")),
           KV("variants",
              List(<<Dict(<<KV("price", Num(1)), KV("size", Str("1g"))>>),
                     Dict(<<KV("price", Bool(TRUE)), KV("size", Str("1g"))>>)>>))>>)

\* The rows batches are made of: those the builder makes of some products.
RowPool ==
    UNION {{_build_rows_from_product(prod, url, Str("rec"))[r] :
               r \in 1..Len(_build_rows_from_product(prod, url, Str("rec")))} :
           prod \in {ProdA, ProdB, ProdD, ProdF}}

Batches == SeqsUpTo(RowPool, MaxBatch)

\* What _dedup_and_add leaves of `rows` fed into an empty result.
AfterFeeding(rows) == _dedup_and_add(rows, 1, <<>>, {})

\* The deduplicator after an earlier batch, about to be fed `batch`.
InitDedup ==
    /\ NoNode
    /\ NoPayload
    /\ batch \in Batches
    /\ feeds = <<>>
    /\ HAS_PLAYWRIGHT = TRUE
    /\ site_categories = <<>>
    /\ site_responses = {}
    /\ NoFetch
    /\ NoGate
    /\ \E earlier \in Batches :
          /\ all_rows = AfterFeeding(earlier).all_rows
          /\ seen_keys = AfterFeeding(earlier).seen_keys
    /\ pc = "start"
    /\ menu_type = Null
    /\ playwright = "none"
    /\ browser = "none"
    /\ listener = FALSE
    /\ init_script = FALSE
    /\ captured = <<>>
    /\ debug_info = EmptyDebugInfo
    /\ categories = <<>>
    /\ ci = 0
    /\ pg = 0
    /\ cap_before = 0
    /\ prev_signatures = {}
    /\ cat_total = 0
    /\ page_products = <<>>
    /\ returned = <<>>
    /\ navs = <<>>
    /\ appended_during = <<>>
    /\ page_log = <<>>
    /\ timed_out = {}

\* added = _dedup_and_add(batch), for the first and for the second time
FeedBatch ==
    /\ Len(feeds) < 2
    /\ \E kept \in {_dedup_and_add(batch, 1, all_rows, seen_keys)} :
          /\ all_rows' = kept.all_rows
          /\ seen_keys' = kept.seen_keys
          /\ feeds' = Append(feeds, [added |-> kept.added, raised |-> kept.raised,
                                     all_rows |-> kept.all_rows,
                                     seen_keys |-> kept.seen_keys])
    /\ UNCHANGED <<rowVars, payload, products, batch, appVars, pageVars>>
    /\ UNCHANGED <<HAS_PLAYWRIGHT, site_categories, site_responses, pc, menu_type,
                   playwright, browser, listener, init_script, captured, debug_info,
                   categories, ci, pg, cap_before, prev_signatures, cat_total,
                   page_products, returned, navs, appended_during, page_log, timed_out>>

SpecDedup == InitDedup /\ [][FeedBatch]_vars

\* C20: feeding the same batch a second time accepts nothing (count 0 unless
\* the call raises, as it did the first time) and leaves the accumulated rows
\* and the seen keys as the first feeding left them.
C20_DedupIdempotent ==
    Len(feeds) = 2 =>
        /\ feeds[2].all_rows = feeds[1].all_rows
        /\ feeds[2].seen_keys = feeds[1].seen_keys
        /\ feeds[2].added = 0
        /\ feeds[2].raised = feeds[1].raised
        /\ all_rows = feeds[1].all_rows
        /\ seen_keys = feeds[1].seen_keys

\* A batch of two rows, one of them already held, was fed twice: the first
\* feeding added one row, the second none.
C20_Witness ==
    /\ Len(feeds) = 2
    /\ Len(batch) = 2
    /\ feeds[1].added = 1
    /\ ~feeds[1].raised
    /\ feeds[2].added = 0
    /\ Len(all_rows) >= 2

\* ------------------------------------- app.py: fetch_competitor_menu steps

\* Lines 613-634: fetch_html, the early return, detect_engine.
FetchStatic ==
    /\ fetch.pc = "start"
    /\ \E page \in StaticPages :
         fetch' =
           IF page.none \/ page.text = ""
           THEN FetchReturn(fetch, EmptyFrame, "None")
           ELSE LET engine == detect_engine(fetch.url, page.text)
                IN  [fetch EXCEPT !.pc = "dutchie_path", !.html = page.text,
                                  !.engine = engine,
                                  !.debug_info.engine_initial = engine]
    /\ UNCHANGED <<rowVars, crawlVars, unitVars, HAS_BROWSER_HELPERS, payloads, parsed_df, pageVars>>

\* debug_info after the crawler's diagnostics were merged in (lines 646-653).
MergedDebug(d, gql, engine) ==
    [d EXCEPT !.browser_used = TRUE,
              !.captured_count = gql.captured_count,
              !.captured_urls = gql.captured_urls,
              !.categories = gql.categories,
              !.per_page_counts = gql.per_page_counts,
              !.graphql_details = gql.graphql_details,
              !.parse_notes = @ \o gql.parse_notes,
              !.engine_final = engine]

\* Lines 639-661: the Dutchie fast path.
DutchieFastPath ==
    /\ fetch.pc = "dutchie_path"
    /\ IF fetch.engine = "dutchie" /\ HAS_BROWSER_HELPERS
       THEN \E res \in CrawlResults :
              LET merged == MergedDebug(fetch.debug_info, res.debug, fetch.engine)
              IN  fetch' =
                    IF res.df.rows # <<>>
                    THEN FetchReturn(
                           [fetch EXCEPT !.debug_info =
                              [merged EXCEPT !.parse_notes = Append(@,
                                 "Dutchie GraphQL crawler found "
                                 \o NatToStr(Len(res.df.rows)) \o " rows")]],
                           res.df, fetch.engine)
                    ELSE [fetch EXCEPT !.pc = "browser_mode", !.debug_info =
                            [merged EXCEPT !.parse_notes = Append(@,
                               "Dutchie GraphQL crawler found 0 rows - falling back to HTML parsing")]]
       ELSE fetch' = [fetch EXCEPT !.pc = "browser_mode"]
    /\ UNCHANGED <<rowVars, crawlVars, unitVars, HAS_BROWSER_HELPERS, payloads, parsed_df, pageVars>>

\* [p.get("url", "") for p in browser_payloads]
UrlsOf(entries) ==
    [i \in 1..Len(entries.items) |->
        IF HasKey(entries.items[i].val, "url")
        THEN Get(entries.items[i].val, "url").s ELSE ""]

\* Lines 674-688 once browser_fetch has returned `out`.
AfterBrowserReturned(f, out) ==
    LET d1 == [f.debug_info EXCEPT !.browser_used = TRUE, !.final_url = out.final_url]
        d2 == IF Truthy(out.browser_payloads)
              THEN [d1 EXCEPT !.captured_count = Len(out.browser_payloads.items),
                              !.captured_urls = UrlsOf(out.browser_payloads)]
              ELSE d1
    IN  [f EXCEPT !.pc = "api_extraction",
                  !.bhtml = out.bhtml,
                  !.browser_payloads = out.browser_payloads,
                  !.final_url_bound = TRUE,
                  !.final_url = out.final_url,
                  !.debug_info = d2,
                  !.html = IF out.bhtml # "" THEN out.bhtml ELSE @,
                  !.engine = IF out.bhtml # ""
                             THEN detect_engine(out.final_url, out.bhtml) ELSE @]

\* Lines 675-680 once browser_fetch has raised `out.exc`: the handler binds
\* bhtml and browser_payloads only, so reading final_url on line 680 raises
\* UnboundLocalError, which leaves fetch_competitor_menu.
AfterBrowserRaised(f, out) ==
    [f EXCEPT !.pc = "raised",
              !.st_warnings = IF is_missing_browser_error(out.exc)
                              THEN Append(@, _PLAYWRIGHT_MISSING_BINARY_WARNING) ELSE @,
              !.bhtml = "",
              !.browser_payloads = Null,
              !.debug_info.browser_used = TRUE,
              !.raised = "UnboundLocalError"]

\* Lines 667-688: generic browser mode.
GenericBrowserMode ==
    /\ fetch.pc = "browser_mode"
    /\ LET js_heavy == fetch.engine \in JsHeavyEngines
           f == [fetch EXCEPT !.js_heavy = js_heavy]
       IN  IF (fetch.use_browser \/ js_heavy) /\ HAS_BROWSER_HELPERS /\ fetch.engine # "dutchie"
           THEN \E out \in BrowserFetchOutcomes(fetch.url) :
                  \E called \in {[f EXCEPT !.browser_called = TRUE, !.browser_out = out]} :
                     fetch' = IF out.raises THEN AfterBrowserRaised(called, out)
                              ELSE AfterBrowserReturned(called, out)
           ELSE fetch' = [f EXCEPT !.pc = "api_extraction"]
    /\ UNCHANGED <<rowVars, crawlVars, unitVars, HAS_BROWSER_HELPERS, payloads, parsed_df, pageVars>>

\* Lines 690-703: engine_final and the API/JSON payload extraction.
ApiExtraction ==
    /\ fetch.pc = "api_extraction"
    /\ LET f == [fetch EXCEPT !.debug_info.engine_final = fetch.engine]
       IN  IF Truthy(fetch.browser_payloads) /\ HAS_BROWSER_HELPERS
           THEN \E df_api \in {parse_dutchie_responses(fetch.browser_payloads)} :
                  fetch' =
                    IF df_api.rows # <<>>
                    THEN FetchReturn(
                           [f EXCEPT !.debug_info.parse_notes = Append(@,
                              "API extraction found " \o NatToStr(Len(df_api.rows))
                              \o " products")],
                           df_api, fetch.engine)
                    ELSE [f EXCEPT !.pc = "html_parsing",
                                   !.debug_info.parse_notes = Append(@,
                                      "API extraction found 0 products from "
                                      \o NatToStr(Len(fetch.browser_payloads.items))
                                      \o " responses")]
           ELSE fetch' = [f EXCEPT !.pc = "html_parsing"]
    /\ UNCHANGED <<rowVars, crawlVars, unitVars, HAS_BROWSER_HELPERS, payloads, parsed_df, pageVars>>

\* Lines 705-724: the engine's HTML parser.
HtmlParsing ==
    /\ fetch.pc = "html_parsing"
    /\ \E df \in ParsedFrames :
         fetch' =
           IF df.rows # <<>>
           THEN FetchReturn(
                  [fetch EXCEPT !.debug_info.parse_notes = Append(@,
                     "HTML/JSON-LD extraction found " \o NatToStr(Len(df.rows))
                     \o " products")],
                  df, fetch.engine)
           ELSE [fetch EXCEPT !.pc = "ocr_fallback", !.df = df,
                              !.debug_info.parse_notes =
                                 Append(@, "HTML/JSON-LD extraction found 0 products")]
    /\ UNCHANGED <<rowVars, crawlVars, unitVars, HAS_BROWSER_HELPERS, payloads, parsed_df, pageVars>>

\* Lines 726-741: the OCR fallback and the final return.
OcrFallback ==
    /\ fetch.pc = "ocr_fallback"
    /\ IF fetch.js_heavy
       THEN \E df_ocr \in ParsedFrames :
              fetch' =
                IF df_ocr.rows # <<>>
                THEN FetchReturn(
                       [fetch EXCEPT !.debug_info.parse_notes = Append(@,
                          "OCR fallback found " \o NatToStr(Len(df_ocr.rows))
                          \o " products")],
                       df_ocr, fetch.engine)
                ELSE FetchReturn(
                       [fetch EXCEPT !.debug_info.parse_notes =
                          Append(@, "OCR fallback found 0 products")],
                       fetch.df, fetch.engine)
       ELSE fetch' = FetchReturn(fetch, fetch.df, fetch.engine)
    /\ UNCHANGED <<rowVars, crawlVars, unitVars, HAS_BROWSER_HELPERS, payloads, parsed_df, pageVars>>

InitFetch ==
    /\ NoNode
    /\ NoPayload
    /\ NoBatch
    /\ HAS_PLAYWRIGHT = TRUE
    /\ site_categories = <<>>
    /\ site_responses = {}
    /\ CrawlAtStart
    /\ HAS_BROWSER_HELPERS \in BOOLEAN
    /\ fetch \in {FetchFrame(u, use) : u \in MenuUrls, use \in BOOLEAN}
    /\ payloads = List(<<>>)
    /\ parsed_df = EmptyFrame
    /\ NoGate

NextFetch ==
    \/ FetchStatic
    \/ DutchieFastPath
    \/ GenericBrowserMode
    \/ ApiExtraction
    \/ HtmlParsing
    \/ OcrFallback

SpecFetch == InitFetch /\ [][NextFetch]_vars

\* ------------------------------------------ claims: the generic browser mode

\* The generic browser-mode block (lines 667-688) is behind the call.
PastBrowserBlock ==
    fetch.pc \in {"api_extraction", "html_parsing", "ocr_fallback", "returned", "raised"}

\* C21: debug_info["final_url"] is always defined and no UnboundLocalError is
\* raised: past the browser-mode block it is the URL browser_fetch returned
\* when that call returned, and the input URL when browser_fetch raised or
\* was not called.
C21_FinalUrlAlwaysDefined ==
    /\ fetch.raised # "UnboundLocalError"
    /\ PastBrowserBlock =>
          fetch.debug_info.final_url =
            IF fetch.browser_called /\ ~fetch.browser_out.raises
            THEN fetch.browser_out.final_url
            ELSE fetch.url

\* C22: once browser_fetch has raised for a missing Chromium binary, a parse
\* note names the missing Chromium binary and the call goes on with the
\* non-browser parsing.
C22_MissingBinaryNotedAndSkipped ==
    (/\ fetch.browser_called
     /\ fetch.browser_out.raises
     /\ is_missing_browser_error(fetch.browser_out.exc)) =>
        /\ \E i \in 1..Len(fetch.debug_info.parse_notes) :
              Contains(fetch.debug_info.parse_notes[i], "Chromium")
        /\ fetch.pc \in {"api_extraction", "html_parsing", "ocr_fallback", "returned"}

\* -------------------------------------------- claims: when a category stops

\* The page after log entry e's page was requested in its category.
NextPageRequested(e) ==
    \E n \in 1..Len(navs) :
        navs[n].cat = page_log[e].cat /\ navs[n].pg = page_log[e].pg + 1

\* Log entry e's page repeats the signature of an earlier page of its category.
RepeatsEarlierPage(e) ==
    \E d \in 1..(e - 1) :
        /\ Evaluated(d)
        /\ page_log[d].cat = page_log[e].cat
        /\ page_log[d].sig = page_log[e].sig

C24_BrowserTornDownOnEveryPath ==
    (pc \in {"return", "done"} /\ browser # "none") =>
        /\ playwright = "stopped"
        /\ (\A i \in 1..Len(debug_info.parse_notes) :
               debug_info.parse_notes[i].kind # "crawler_error") => browser = "closed"

\* A crawl whose browser was launched ended by an exception after it had
\* requested a category page.
C24_Witness ==
    /\ pc = "done"
    /\ browser = "open"
    /\ playwright = "stopped"
    /\ \E n \in 1..Len(navs) : navs[n].pg >= 1
    /\ \E i \in 1..Len(debug_info.parse_notes) :
          debug_info.parse_notes[i].kind = "crawler_error"

\* ------------------------------------------- parse_dutchie_responses alone

\* Longest payload list handed to parse_dutchie_responses.
MaxPayloads == 2

\* A URL of more than 60 characters.
LongUrl == "https://api.example/graphql?operationName=FilteredProducts&variables=1"

\* A list of product-like dicts with prices and THC given as text.
ParserMenu ==
    List(<<Dict(<<KV("name", Str("OG Kush")), KV("price", Str("$10.00")),
                  KV("thc", Str("THC 22.5%")), KV("type", Str("Flower"))>>),
           Dict(<<KV("Name", Str("OG Kush")), KV("Price", Num(10))>>),
           Dict(<<KV("name", Str("OG Kush")), KV("price", Str("1,200"))>>),
           Dict(<<KV("productName", Str(" Wax ")), KV("cost", Num(0)),
                  KV("salePrice", Num(45))>>),
           Dict(<<KV("title", Str("x")), KV("price", Num(3))>>)>>)

\* The payloads the lists are made of: with products, with the same products
\* under another URL, with data None, without "data", without "url", with
\* no product-like dict.
PayloadPool ==
    { BrowserEntry(GraphqlUrl, BodyTwoProducts),
      BrowserEntry(LongUrl, BodyTwoProducts),
      BrowserEntry(GraphqlUrl, BodyOutOfStock),
      BrowserEntry(LongUrl, ParserMenu),
      BrowserEntry(GraphqlUrl, Null),
      Dict(<<KV("url", Str(GraphqlUrl))>>),
      Dict(<<KV("data", ParserMenu)>>),
      BrowserEntry(LongUrl, BodyNoProducts) }

PayloadLists == {List(ps) : ps \in SeqsUpTo(PayloadPool, MaxPayloads)}

InitParse ==
    /\ node = Null
    /\ phase = "none"
    /\ in_stock = FALSE
    /\ built = <<>>
    /\ NoPayload
    /\ NoBatch
    /\ HAS_PLAYWRIGHT = TRUE
    /\ site_categories = <<>>
    /\ site_responses = {}
    /\ CrawlAtStart
    /\ HAS_BROWSER_HELPERS = TRUE
    /\ fetch = FetchFrame("", FALSE)
    /\ payloads \in PayloadLists
    /\ parsed_df = EmptyFrame
    /\ NoGate

\* parsed_df = parse_dutchie_responses(payloads)
ParseResponses ==
    /\ phase = "none"
    /\ parsed_df' = parse_dutchie_responses(payloads)
    /\ phase' = "parsed"
    /\ UNCHANGED <<node, in_stock, built, crawlVars, unitVars, HAS_BROWSER_HELPERS,
                   fetch, payloads, pageVars>>

SpecParse == InitParse /\ [][ParseResponses]_vars

\* The payloads (positions) whose data is not None.
WithData == {k \in 1..Len(payloads.items) : Get(payloads.items[k].val, "data").t # "null"}

\* The (name, price) pairs of the product-like dicts found in payload k, the
\* price as the numeric column shows it.
PairsIn(k) ==
    LET found == _search_for_products(Get(payloads.items[k].val, "data"), 0)
    IN  {<<found[i].Product, CoerceCell(found[i].Price)>> : i \in 1..Len(found)}

PairOfRow(r) == <<r.Product, r.Price>>

\* C25: the table has the columns Product, Category, Price, THC, Source,
\* also when it is empty; no two rows share a (Product, Price) pair; every
\* pair found in a payload with data has a row, labelled with the first such
\* payload that holds it; payloads whose data is None contribute nothing.
C25_ParserTable ==
    phase = "parsed" =>
        /\ parsed_df.columns = ParserColumns
        /\ \A i, j \in 1..Len(parsed_df.rows) :
              i # j => PairOfRow(parsed_df.rows[i]) # PairOfRow(parsed_df.rows[j])
        /\ {PairOfRow(parsed_df.rows[i]) : i \in 1..Len(parsed_df.rows)}
              = UNION {PairsIn(k) : k \in WithData}
        /\ \A i \in 1..Len(parsed_df.rows) :
              parsed_df.rows[i].Source =
                StrCell(source_label(PayloadUrl(payloads.items[
                    Min({k \in WithData : PairOfRow(parsed_df.rows[i]) \in PairsIn(k)})].val)))
        /\ (WithData = {}) => parsed_df.rows = <<>>

\* Two payloads held the same products under different URLs, after a payload
\* whose data is None or before one: the second added no row.
C25_Witness ==
    /\ phase = "parsed"
    /\ Len(payloads.items) = 2
    /\ PairsIn(1) # {}
    /\ PairsIn(1) = PairsIn(2)
    /\ PayloadUrl(payloads.items[1].val) # PayloadUrl(payloads.items[2].val)
    /\ Len(parsed_df.rows) = Cardinality(PairsIn(1))

\* ------------------------------------------- claims: the known-path order

\* What a key of the body's "data" object may hold in the documents tried:
\* nothing (the key is absent), or one of the given values.
Absent == <<>>
Holding(key, v) == <<KV(key, v)>>

ListA == List(<<ProdA>>)
ListB == List(<<ProdB>>)
ListC == List(<<ProdC, ProdB>>)
ListD == List(<<ProdD>>)
ListE == List(<<ProdE, ProdA, ProdB>>)

\* Bodies {"data": {...}} with every combination of the four known paths
\* present, absent or broken, and with or without a list elsewhere.
PathDocuments ==
    { Dict(<<KV("data", Dict(fp \o pr \o mp \o other))>>) :
        fp \in {Absent,
                Holding("filteredProducts", Dict(<<KV("products", ListA)>>)),
                Holding("filteredProducts", Dict(<<KV("total", Num(1))>>)),
                Holding("filteredProducts", ListA)},
        pr \in {Absent,
                Holding("products", Dict(<<KV("products", ListB)>>)),
                Holding("products", ListD)},
        mp \in {Absent,
                Holding("menuProducts", ListC),
                Holding("menuProducts", Str("none"))},
        other \in {Absent, Holding("items", ListE)} }

InitPaths ==
    /\ NoNode
    /\ payload \in {Entry(doc) : doc \in PathDocuments}
    /\ products = <<>>
    /\ NoBatch
    /\ HAS_PLAYWRIGHT = TRUE
    /\ site_categories = <<>>
    /\ site_responses = {}
    /\ NoFetch
    /\ NoGate
    /\ CrawlAtStart

SpecPaths == InitPaths /\ [][ExtractProducts]_vars

\* path leads through dicts only, to a value that is present.
RECURSIVE Follows(_, _, _)
Follows(obj, path, i) ==
    IF i > Len(path) THEN TRUE
    ELSE obj.t = "dict" /\ HasKey(obj, path[i]) /\ Follows(Get(obj, path[i]), path, i + 1)

RECURSIVE ValueAt(_, _, _)
ValueAt(obj, path, i) ==
    IF i > Len(path) THEN obj ELSE ValueAt(Get(obj, path[i]), path, i + 1)

\* The known paths (positions) that resolve to a list in body.
ResolvingPaths(body) ==
    {i \in 1..Len(_PRODUCT_ARRAY_PATHS) :
        /\ Follows(body, _PRODUCT_ARRAY_PATHS[i], 1)
        /\ ValueAt(body, _PRODUCT_ARRAY_PATHS[i], 1).t = "list"}

MembersOf(list) == [i \in 1..Len(list.items) |-> list.items[i].val]

\* C26: the extractor returns the list at the highest-priority known path
\* that resolves to a list (data.filteredProducts.products, then
\* data.products.products, data.menuProducts, data.products), and the result
\* of the fallback search only when no known path resolves to a list.
C26_HighestPriorityPathWins ==
    phase = "extracted" =>
        LET body == payload.json
        IN  IF ResolvingPaths(body) # {}
            THEN products =
                   MembersOf(ValueAt(body, _PRODUCT_ARRAY_PATHS[Min(ResolvingPaths(body))], 1))
            ELSE products = _find_product_list(body, 0)

\* --------------------------------------- claims: competing product lists

\* Longest product-like list of the documents tried.
MaxListLen == 3

\* Most levels of wrapping of a list in the documents tried.
MaxWrap == 2

\* A list of n dicts named tag1, tag2, ...
NamedList(n, tag) ==
    List([i \in 1..n |-> Dict(<<KV("name", Str(tag \o NatToStr(i)))>>)])

\* A list of n named dicts whose first member also holds a list of k named
\* dicts under "kids".
NestingList(n, k) ==
    List([i \in 1..n |->
            IF i = 1
            THEN Dict(<<KV("name", Str("outer1")), KV("kids", NamedList(k, "kid"))>>)
            ELSE Dict(<<KV("name", Str("outer" \o NatToStr(i)))>>)])

\* v below `levels` dicts, each holding it under "wrap".
RECURSIVE Wrapped(_, _)
Wrapped(v, levels) ==
    IF levels = 0 THEN v ELSE Dict(<<KV("wrap", Wrapped(v, levels - 1))>>)

\* Documents with two product-like lists at chosen depths, and documents
\* with a product-like list inside a member of another.
CompetingDocuments ==
    { Dict(<<KV("a", Wrapped(NamedList(na, "a"), da)),
             KV("b", Wrapped(NamedList(nb, "b"), db))>>) :
        na \in 1..MaxListLen, nb \in 1..MaxListLen, da \in 0..MaxWrap, db \in 0..MaxWrap }
    \cup
    { Dict(<<KV("a", Wrapped(NestingList(n, k), d))>>) :
        n \in 1..MaxListLen, k \in 1..MaxListLen, d \in 0..MaxWrap }

InitCompeting ==
    /\ NoNode
    /\ payload \in {Entry(doc) : doc \in CompetingDocuments}
    /\ products = <<>>
    /\ NoBatch
    /\ HAS_PLAYWRIGHT = TRUE
    /\ site_categories = <<>>
    /\ site_responses = {}
    /\ NoFetch
    /\ NoGate
    /\ CrawlAtStart

SpecCompeting == InitCompeting /\ [][ExtractProducts]_vars

\* The qualifying lists at or below obj within the depth bound, in document
\* order, each as [members, depth]; `inside` tells whether the lists inside
\* the members of a qualifying list are counted too.
RECURSIVE QualifyingLists(_, _, _), QualifyingBelow(_, _, _, _)
QualifyingLists(obj, depth, inside) ==
    IF depth > max_depth \/ obj.t \notin {"dict", "list"} THEN <<>>
    ELSE IF obj.t = "list" /\ QualifiesAsProductList(obj)
    THEN <<[members |-> MembersOf(obj), depth |-> depth]>>
         \o (IF inside THEN QualifyingBelow(obj, 1, depth, inside) ELSE <<>>)
    ELSE QualifyingBelow(obj, 1, depth, inside)

QualifyingBelow(obj, i, depth, inside) ==
    IF i > Len(obj.items) THEN <<>>
    ELSE QualifyingLists(obj.items[i].val, depth + 1, inside)
         \o QualifyingBelow(obj, i + 1, depth, inside)

\* The first of the longest lists of a non-empty sequence of lists.
FirstLongest(lists) ==
    lists[Min({i \in 1..Len(lists) :
                 \A j \in 1..Len(lists) : Len(lists[j].members) <= Len(lists[i].members)})]

MaxElems == 3

\* What the members of the lists tried are: dicts with a "name", with a
\* "title", with neither (one of them with "Name"), a str, a number.
ElementPool ==
    { Dict(<<KV("name", Str("Blue Dream"))>>),
      Dict(<<KV("title", Str("Gummies")), KV("price", Num(5))>>),
      Dict(<<KV("Name", Str("House Preroll")), KV("sku", Str("x"))>>),
      Str("name"),
      Num(2) }

\* Bodies whose only list lies under a key no known path names.
ListDocuments ==
    {Dict(<<KV("result", List(elems))>>) : elems \in SeqsUpTo(ElementPool, MaxElems)}

InitLists ==
    /\ NoNode
    /\ payload \in {Entry(doc) : doc \in ListDocuments}
    /\ products = <<>>
    /\ NoBatch
    /\ HAS_PLAYWRIGHT = TRUE
    /\ site_categories = <<>>
    /\ site_responses = {}
    /\ NoFetch
    /\ NoGate
    /\ CrawlAtStart

SpecLists == InitLists /\ [][ExtractProducts]_vars

\* The list of the document tried.
TheList == Get(payload.json, "result")

\* How many members of TheList are dicts with a "name" or a "title" key.
NamedCount ==
    Cardinality({i \in 1..Len(TheList.items) :
        /\ TheList.items[i].val.t = "dict"
        /\ \E m \in 1..Len(TheList.items[i].val.items) :
              TheList.items[i].val.items[m].k \in {"name", "title"}})

\* C28: the list is accepted (returned as the product list) exactly when it
\* is non-empty and at least min(2, length) of its members are dicts with a
\* "name" or "title" key; otherwise nothing is returned.
C28_ListAcceptedIffEnoughNamed ==
    phase = "extracted" =>
        IF /\ Len(TheList.items) > 0
           /\ \/ Len(TheList.items) = 1 /\ NamedCount = 1
              \/ Len(TheList.items) >= 2 /\ NamedCount >= 2
        THEN products = MembersOf(TheList)
        ELSE products = <<>>

\* A list of two members of which one is a named dict was not accepted.
C28_Witness ==
    /\ phase = "extracted"
    /\ Len(TheList.items) = 2
    /\ NamedCount = 1
    /\ products = <<>>

\* ------------------------------------------- the price and size of a variant

\* The ways a variant may carry a field: not at all, or with one of the values.
FieldChoices(key, values) == {<<>>} \cup {<<KV(key, v)>> : v \in values}

\* Variants whose price and size fields are absent, falsy or set.
PricedVariants ==
    {Dict(sp \o pr \o lp \o sz \o wt \o op) :
        sp \in FieldChoices("specialPrice", {Num(0), Num(8)}),
        pr \in FieldChoices("price", {Str(""), Num(12)}),
        lp \in FieldChoices("listPrice", {Num(0), Num(30)}),
        sz \in FieldChoices("size", {Str(""), Str("1g")}),
        wt \in FieldChoices("weight", {Num(0), Str("3.5g")}),
        op \in FieldChoices("option", {Num(0)})}

\* A named product with one variant, which has no stock field.
PricedNodes ==
    {Dict(<<KV("name", Str("Blue Dream")), KV("variants", List(<<v>>))>>) :
        v \in PricedVariants}

InitPrices ==
    /\ node \in PricedNodes
    /\ phase = "input"
    /\ in_stock = FALSE
    /\ built = <<>>
    /\ HAS_PLAYWRIGHT = TRUE
    /\ site_categories = <<>>
    /\ site_responses = {}
    /\ NoFetch
    /\ NoGate
    /\ CrawlAtStart
    /\ NoPayload
    /\ NoBatch

SpecPrices == InitPrices /\ [][NextRows]_vars

\* The one variant of the node.
TheVariant == Get(node, "variants").items[1].val

PriceFields == <<"specialPrice", "price", "amount", "listPrice">>
SizeFields == <<"size", "weight", "option">>

\* The value of the first of the fields the variant carries, None when it
\* carries none of them.
FirstPresent(variant, fields) ==
    LET present == {i \in 1..Len(fields) : HasKey(variant, fields[i])} IN
    IF present = {} THEN Null ELSE Get(variant, fields[Min(present)])

\* The value of the first of the fields whose value is truthy; when none is,
\* the value of the last field (None when the variant does not carry it).
FirstTruthy(variant, fields) ==
    LET truthy == {i \in 1..Len(fields) : Truthy(Get(variant, fields[i]))} IN
    IF truthy = {} THEN Get(variant, fields[Len(fields)])
    ELSE Get(variant, fields[Min(truthy)])

\* Size is str(size) unless size is None.
AsSize(v) == IF v.t = "null" THEN Null ELSE Str(StrOf(v))

\* C29 as stated: Price is the value of the first field present among
\* specialPrice, price, amount, listPrice and Size the value of the first
\* field present among size, weight, option, also when that value is 0 or "".
C29_FirstPresentFieldUsed ==
    phase = "built" =>
        /\ Len(built) = 1
        /\ built[1].Price = FirstPresent(TheVariant, PriceFields)
        /\ built[1].Size = AsSize(FirstPresent(TheVariant, SizeFields))

\* C29 amended: Price is the value of the first field among specialPrice,
\* price, amount, listPrice whose value is truthy, and Size the text of the
\* first truthy among size, weight, option; a present field whose value is 0
\* or an empty string is passed over, and when no field is truthy the value
\* of the last field of the order (None when absent) is used.
C29_FirstTruthyFieldUsed ==
    phase = "built" =>
        /\ Len(built) = 1
        /\ built[1].Price = FirstTruthy(TheVariant, PriceFields)
        /\ built[1].Size = AsSize(FirstTruthy(TheVariant, SizeFields))

\* A row was emitted for a variant whose specialPrice is 0 and whose size is
\* "": its Price is that of the price field and its Size that of weight.
C29_Witness ==
    /\ phase = "built"
    /\ Get(TheVariant, "specialPrice") = Num(0)
    /\ Get(TheVariant, "size") = Str("")
    /\ Len(built) = 1
    /\ built[1].Price = Num(12)
    /\ built[1].Size = Str("3.5g")

\* ------------------------------------------- elements without a usable name

\* An element of a product list that is a dict without name, title or displayName.
ProdNameless == Dict(<<KV("sku", Str("x")), KV("price", Num(5))>>)

\* A list the fallback search accepts (two of three named) with a nameless dict.
BodyNamelessElement ==
    Dict(<<KV("result", Dict(<<KV("items", List(<<ProdB, ProdNameless, ProdE>>))>>))>>)

\* A list at a known path with an element that is a string.
BodyLooseElement ==
    Dict(<<KV("data", Dict(<<KV("products", List(<<ProdB, Str("sold out"), ProdE>>))>>))>>)

\* A site whose product lists carry elements without a usable name.
LooseSites ==
    { {Response(GraphqlUrl, JsonText(BodyNamelessElement)),
       Response(GraphqlUrl, JsonText(BodyLooseElement)),
       Response(GraphqlUrl, JsonText(BodyUnhashablePrice))} }

InitLoose ==
    /\ NoNode
    /\ NoPayload
    /\ NoBatch
    /\ HAS_PLAYWRIGHT \in BOOLEAN
    /\ site_categories \in {<<>>, <<CategoryNames[4]>>}
    /\ site_responses \in LooseSites
    /\ NoFetch
    /\ NoGate
    /\ CrawlAtStart

SpecLoose == InitLoose /\ [][Next]_vars

\* The entries of `captured` that page_log entry e was collected from.
PageCaptures(e) == SubSeq(captured, page_log[e].first, page_log[e].last)

\* The elements of the product lists extracted from entries i.. , in order.
RECURSIVE ElementsOf(_, _)
ElementsOf(entries, i) ==
    IF i > Len(entries) THEN <<>>
    ELSE _extract_products_from_payload(entries[i]) \o ElementsOf(entries, i + 1)

\* The elements that have a usable name.
NamedOnly(elements) == SelectSeq(elements, HasUsableName)

\* What the page of log entry e yields when its elements without a usable
\* name are left out beforehand.
WithoutNameless(e) ==
    RowsOfProducts(NamedOnly(ElementsOf(PageCaptures(e), 1)), 1, url, menu_type)

\* C30: every element of an extracted product list without a usable name is
\* discarded silently: the page yields the rows of its other elements, as
\* many as if the nameless elements were not there, and no error is raised
\* on their account.
C30_NamelessElementsDiscardedSilently ==
    \A e \in 1..Len(page_log) :
        ~WithoutNameless(e).raised =>
            /\ page_log[e].nrows = Len(WithoutNameless(e).rows)
            /\ page_log[e].outcome = "raised" =>
                  \E i \in 1..Len(WithoutNameless(e).rows) :
                      ~Hashable(WithoutNameless(e).rows[i])

\* ------------------------------------------------ the order of the set-up

\* The notes of discovery in the diagnostics: one per run of _discover_categories.
DiscoveryNotes ==
    {k \in 1..Len(debug_info.parse_notes) : debug_info.parse_notes[k].kind = "discovered"}

\* C31: the seeding script and the response listener are installed before
\* the first navigation is issued; category discovery runs exactly once,
\* after the initial navigation and the age-gate attempt, and before any
\* navigation to a category page.
C31_SetupBeforeNavigationDiscoveryOnce ==
    /\ navs # <<>> => init_script /\ listener
    /\ Cardinality(DiscoveryNotes) <= 1
    /\ DiscoveryNotes # {} =>
          /\ navs # <<>>
          /\ navs[1].pg = 0
          /\ gate.attempted
          /\ gate.at_nav = 1
    /\ (\E n \in 1..Len(navs) : navs[n].pg >= 1) => DiscoveryNotes # {}
    /\ pc \in PagePcs \cup {"initial_parse", "close"} => Cardinality(DiscoveryNotes) = 1

\* A second category page is being loaded: set-up, initial navigation, age
\* gate and discovery lie behind.
C31_Witness ==
    /\ pc = "page_loading"
    /\ Len(navs) >= 3
    /\ init_script /\ listener
    /\ gate.attempted
    /\ Cardinality(DiscoveryNotes) = 1

\* ---------------------------------------------------- one age-gate attempt

\* Most elements of the page that an age-gate probe finds.
MaxGateElements == 2

\* The probes that find something on the pages tried: the first two and
\* the last selector, the first text with its first two tags, the second
\* text, and the last probe of all.
GatePositions ==
    {1, 2, Len(_AGE_GATE_SELECTORS),
     Len(_AGE_GATE_SELECTORS) + 1, Len(_AGE_GATE_SELECTORS) + 2,
     Len(_AGE_GATE_SELECTORS) + Len(AgeGateTags) + 1, Len(AgeGateProbes)}

GateElements ==
    {[at |-> i, is |-> o] : i \in GatePositions, o \in ProbeOutcomes \ {"absent"}}

\* The pages tried: at most MaxGateElements elements, no two at one probe.
RECURSIVE PagesUpTo(_)
PagesUpTo(n) ==
    IF n = 0 THEN {{}}
    ELSE PagesUpTo(n - 1)
         \cup {page \cup {el} : page \in PagesUpTo(n - 1),
                                 el \in GateElements}

GatePages ==
    {page \in PagesUpTo(MaxGateElements) : \A a, b \in page : a.at = b.at => a = b}

InitAgeGate ==
    /\ gate \in {GateNotTried(page, fn) : page \in GatePages, fn \in AgeGateFunctions}
    /\ discovery = [page |-> [hrefs |-> <<>>, links_read |-> 0, html |-> "",
                              content_raises |-> FALSE],
                    done |-> FALSE, categories |-> <<>>]
    /\ NoNode
    /\ NoPayload
    /\ NoBatch
    /\ HAS_PLAYWRIGHT = TRUE
    /\ site_categories = <<>>
    /\ site_responses = {}
    /\ NoFetch
    /\ CrawlAtStart

\* _bypass_age_gate(page) or try_bypass_age_gate(page), called on its own.
CallBypass ==
    /\ ~gate.attempted
    /\ gate' = BypassAgeGate(gate.page, gate.fn)
    /\ UNCHANGED discovery
    /\ UNCHANGED <<rowVars, crawlVars, unitVars, appVars>>

SpecAgeGate == InitAgeGate /\ [][CallBypass]_vars

\* The probes that find a visible element whose click succeeds.
VisibleAt == {i \in 1..Len(AgeGateProbes) : OutcomeAt(gate.page, i) = "visible"}

\* Probes 1..n, in order.
UpTo(n) == [i \in 1..n |-> i]

MaxLinks == 2

\* link.get_attribute("href") of the links tried: matches in either
\* spelling and any case, a token that is blank once unescaped, an href
\* without the parameter, no href at all.
HrefPool ==
    {Str("/menu?dtche%5Bcategory%5D=flower"),
     Str("/menu?dtche[category]=Pre%20Rolls&dtche[page]=2"),
     Str("/menu?DTCHE%5bCategory%5d=Flower"),
     Str("/menu?dtche[category]=%20"),
     Str("/menu?dtche[page]=2"),
     Null}

\* page.content() of the pages tried.
HtmlPool ==
    {"",
     "<b>dtche[category]=Pre%20Rolls</b> <i>dtche[category]=vape</i> <u>dtche[category]=flower</u>",
     "{\"next\":\"?dtche[category]=&dtche[category]=edibles&dtche%5Bcategory%5D=vape\"}"}

DiscoveryPages ==
    {[hrefs |-> hrefs, links_read |-> n, html |-> html, content_raises |-> raises] :
        hrefs \in SeqsUpTo(HrefPool, MaxLinks), n \in 0..MaxLinks,
        html \in HtmlPool, raises \in BOOLEAN}

InitDiscover ==
    /\ gate = GateNotTried({}, "_bypass_age_gate")
    /\ discovery \in {[page |-> page, done |-> FALSE, categories |-> <<>>] :
                         page \in {d \in DiscoveryPages : d.links_read <= Len(d.hrefs)}}
    /\ NoNode
    /\ NoPayload
    /\ NoBatch
    /\ HAS_PLAYWRIGHT = TRUE
    /\ site_categories = <<>>
    /\ site_responses = {}
    /\ NoFetch
    /\ CrawlAtStart

\* categories = _discover_categories(page)
Discover ==
    /\ ~discovery.done
    /\ discovery' = [discovery EXCEPT !.done = TRUE,
                                      !.categories = _discover_categories(discovery.page)]
    /\ UNCHANGED <<rowVars, crawlVars, unitVars, appVars, gate>>

SpecDiscover == InitDiscover /\ [][Discover]_vars

\* The categories the page offers, in the order the scans meet them: those
\* of the links read, then (unless page.content() raised) those of the HTML.
Offered ==
    [k \in 1..discovery.page.links_read |-> HrefCategory(discovery.page.hrefs[k])]
    \o (IF discovery.page.content_raises THEN <<>>
        ELSE HtmlCategories(discovery.page.html))

\* Where cat is first met in `offered`.
FirstOffer(offered, cat) == Min({k \in 1..Len(offered) : offered[k] = cat})

\* `cats` holds no token twice and holds exactly the non-blank tokens of
\* `offered`, in the order of their first occurrence.
FirstSeenOnce(cats, offered) ==
    /\ \A i, j \in 1..Len(cats) : i # j => cats[i] # cats[j]
    /\ {cats[i] : i \in 1..Len(cats)} = {offered[k] : k \in 1..Len(offered)} \ {""}
    /\ \A i, j \in 1..Len(cats) :
          i < j => FirstOffer(offered, cats[i]) < FirstOffer(offered, cats[j])

\* C32: the list returned holds no token twice and holds exactly the
\* non-blank tokens offered, in the order of their first occurrence, the
\* tokens of the anchors before those met only in the HTML; a scan that
\* raises leaves what was collected before in place.
C32_NoTokenTwiceFirstSeenOrder ==
    discovery.done =>
        \E offered \in {Offered} : FirstSeenOnce(discovery.categories, offered)

\* Two links with the same token, the HTML repeating it and adding one, the
\* link scan complete: the token is listed once, ahead of the added one.
C32_Witness ==
    /\ discovery.done
    /\ discovery.page.links_read = 2
    /\ HrefCategory(discovery.page.hrefs[1]) = "flower"
    /\ HrefCategory(discovery.page.hrefs[2]) = "flower"
    /\ ~discovery.page.content_raises
    /\ discovery.categories = <<"flower", "Pre Rolls", "vape">>

\* ------------------------------------------------ the order of the pages

\* Where category cat stands in the discovered list.
CategoryIndex(cat) == CHOOSE k \in 1..Len(categories) : categories[k] = cat

\* The log entry of the page that navigation n requested, if it was collected.
EntriesOfNav(n) == {e \in 1..Len(page_log) : page_log[e].nav = n}

\* C33: categories are crawled in discovery order, each from page 1 with
\* consecutive page numbers; page n+1 of a category is requested only after
\* page n was accepted (non-empty, signature not seen before), and after a
\* category has stopped none of its pages is requested again.
C33_PagesInOrderNoRevisit ==
    /\ \A n \in 2..Len(navs) : navs[n].pg >= 1 /\ navs[n].cat \in
                                      {categories[k] : k \in 1..Len(categories)}
    /\ Len(navs) >= 2 => navs[2].cat = categories[1] /\ navs[2].pg = 1
    /\ \A n \in 2..(Len(navs) - 1) :
          \/ /\ navs[n + 1].cat = navs[n].cat
             /\ navs[n + 1].pg = navs[n].pg + 1
             /\ \E e \in EntriesOfNav(n) : page_log[e].outcome = "accepted"
          \/ /\ CategoryIndex(navs[n + 1].cat) = CategoryIndex(navs[n].cat) + 1
             /\ navs[n + 1].pg = 1
    /\ \A e \in 1..Len(page_log) :
          page_log[e].outcome \in {"empty", "repeated"} =>
              \A n \in 1..Len(navs) :
                  n > page_log[e].nav => navs[n].cat # page_log[e].cat

\* The second category is being loaded after the first stopped at its
\* second page.
C33_Witness ==
    /\ Len(navs) = 4
    /\ navs[3].cat = categories[1] /\ navs[3].pg = 2
    /\ navs[4].cat = categories[2] /\ navs[4].pg = 1
    /\ \E e \in EntriesOfNav(3) : page_log[e].outcome \in {"empty", "repeated"}

\* --------------------------------------------- prices of more than one type

\* One product, once with its price as a number and once with the same
\* price as text, and a size priced with text that is no number.
ProdPricedAsNumber ==
    Dict(<<KV("name", Str("Blue Dream")),
           KV("variants", List(<<Dict(<<KV("price", Num(10)), KV("size", Str("1g"))>>)>>))>>)

ProdPricedAsText ==
    Dict(<<KV("name", Str("Blue Dream")),
           KV("variants", List(<<Dict(<<KV("price", Str("10")), KV("size", Str("1g"))>>),
                                 Dict(<<KV("price", Str("$30")), KV("size", Str("7g"))>>)>>))>>)

BodyPricedAsNumber ==
    Dict(<<KV("data", Dict(<<KV("menuProducts", List(<<ProdPricedAsNumber>>))>>))>>)

BodyPricedAsText ==
    Dict(<<KV("data", Dict(<<KV("menuProducts", List(<<ProdPricedAsText>>))>>))>>)

\* A site that sends the same product with prices of different JSON types.
MixedPriceSites ==
    { {Response(GraphqlUrl, JsonText(BodyPricedAsNumber)),
       Response(GraphqlUrl, JsonText(BodyPricedAsText)),
       Response(GraphqlUrl, JsonText(BodyUnhashablePrice))} }

InitMixedPrices ==
    /\ NoNode
    /\ NoPayload
    /\ NoBatch
    /\ HAS_PLAYWRIGHT \in BOOLEAN
    /\ site_categories \in {<<>>, <<CategoryNames[1]>>}
    /\ site_responses \in MixedPriceSites
    /\ NoFetch
    /\ NoGate
    /\ CrawlAtStart

SpecMixedPrices == InitMixedPrices /\ [][Next]_vars

\* C35: in the table returned, whose Price column has been made numeric, no
\* two rows have the same Product, Price and Size.
C35_ReturnedTripleUnique ==
    pc = "done" =>
        \A i, j \in 1..Len(returned) :
            i # j => <<returned[i].Product, returned[i].Price, returned[i].Size>>
                     # <<returned[j].Product, returned[j].Price, returned[j].Size>>

\* ------------------------------------------------------ the capture buffer

\* The URLs among the site's responses that contain "graphql" or
\* "operationname", whatever the case.
GraphqlUrlsOfSite ==
    {u \in {response.url : response \in UNION Sites} :
        Contains(Lower(u), "graphql") \/ Contains(Lower(u), "operationname")}

\* The count and the URL list of the diagnostics agree with the buffer, and
\* every buffered entry has a non-empty parsed body and a GraphQL URL.
BufferConsistent ==
    /\ debug_info.captured_count = Len(captured)
    /\ Len(debug_info.captured_urls) = Len(captured)
    /\ \A k \in 1..Len(captured) :
          /\ debug_info.captured_urls[k] = captured[k].url
          /\ Truthy(captured[k].json)
          /\ captured[k].data = captured[k].json
          /\ captured[k].url \in GraphqlUrlsOfSite

\* A step leaves the entries already buffered where they are.
BufferGrows ==
    /\ Len(captured') >= Len(captured)
    /\ SubSeq(captured', 1, Len(captured)) = captured

\* C36: in every state captured_count equals the length of the capture
\* buffer and of captured_urls; the buffer only grows; every buffered entry
\* has a non-empty parsed JSON body and the URL of its response contains
\* "graphql" or "operationname", whatever the case.
C36_BufferCountedAndGrowing == []BufferConsistent /\ [][BufferGrows]_vars

\* Responses were buffered while others were turned away or failed to parse.
C36_Witness ==
    /\ Len(captured) >= 2
    /\ Len(debug_info.graphql_details) > Len(captured)
    /\ debug_info.captured_count = Len(captured)

\* ------------------------------------------------------- the page counts

\* The sum of the values of per_page_counts over the keys in `keys`.
RECURSIVE SumOfCounts(_, _)
SumOfCounts(counts, keys) ==
    IF keys = {} THEN 0
    ELSE LET key == CHOOSE k \in keys : TRUE
         IN  counts[key] + SumOfCounts(counts, keys \ {key})

\* The crawl ran to browser.close() and returned, with no exception caught.
CompletedWithoutException ==
    /\ pc = "done"
    /\ browser = "closed"
    /\ \A k \in 1..Len(debug_info.parse_notes) :
          debug_info.parse_notes[k].kind # "crawler_error"

\* C37: when a crawl completes without an exception, per_page_counts has
\* exactly one entry per category page requested, or the single entry
\* "initial" when no category was discovered, and its values add up to the
\* number of rows of the table returned.
C37_OneCountPerPageSumIsRows ==
    CompletedWithoutException =>
        LET counts == debug_info.per_page_counts IN
        /\ IF categories = <<>>
           THEN DOMAIN counts = {"initial"}
           ELSE /\ DOMAIN counts = {PageKey(navs[n].cat, navs[n].pg) : n \in 2..Len(navs)}
                /\ Cardinality(DOMAIN counts) = Len(navs) - 1
        /\ SumOfCounts(counts, DOMAIN counts) = Len(returned)

\* A crawl of two categories ended normally with rows from more than one page.
C37_Witness ==
    /\ CompletedWithoutException
    /\ Len(categories) = 2
    /\ Len(navs) >= 4
    /\ Len(returned) >= 2
    /\ \E k \in DOMAIN debug_info.per_page_counts : debug_info.per_page_counts[k] = 0

\* ------------------------------------- what the initial load has captured

\* The buffered entries that arrived before the first category navigation.
InitialCaptures == {k \in 1..Len(captured) : appended_during[k] <= 1}

\* The rows built from the entries of the pages collected so far.
RowsOfPages ==
    UNION {{page_log[e].rows[j] : j \in 1..Len(page_log[e].rows)} :
              e \in 1..Len(page_log)}

\* C38: when at least one category is discovered, no page is collected from
\* an entry buffered during the initial load, and every row of the result
\* was built from the entries buffered during the navigation to some
\* category page.
C38_InitialCapturesNeverRows ==
    categories # <<>> =>
        /\ \A e \in 1..Len(page_log) :
              \A k \in page_log[e].first..page_log[e].last :
                  /\ k \notin InitialCaptures
                  /\ appended_during[k] = page_log[e].nav
        /\ \A i \in 1..Len(all_rows) : all_rows[i] \in RowsOfPages
        /\ Len(returned) = 0 \/ Len(returned) = Len(all_rows)

\* Product responses were buffered during the initial load, a category was
\* crawled, and the table returned has rows.
C38_Witness ==
    /\ pc = "done"
    /\ categories # <<>>
    /\ \E k \in InitialCaptures : _extract_products_from_payload(captured[k]) # <<>>
    /\ Len(returned) >= 1

\* ------------------------------------- the product-level stock gate (C39)

\* The positions of the node's own stock fields that hold a bool, str or number.
OwnStockFields ==
    {i \in StockKeyPositions(node) : IsScalarSignal(node.items[i].val)}

IsVariantsMember(m) == m.k \in {"variants", "options"}

IsOwnMember(m) == ~IsVariantsMember(m)

\* The node with its variants and options members taken away.
WithoutVariants == Dict(SelectSeq(node.items, IsOwnMember))

\* C39: when the product has a stock field of its own holding a bool, str or
\* number, the gate's verdict is that of the first such field, whatever the
\* variants say, and a verdict of out of stock leaves the product without
\* rows; a product with no stock field of its own passes the gate, and its
\* rows are those the builder's per-variant check lets through.
C39_ProductFieldAloneDecidesGate ==
    phase = "built" =>
        /\ OwnStockFields # {} =>
              /\ in_stock = StockVerdict(node.items[Min(OwnStockFields)].val,
                                         ProductOutOfStockStrings)
              /\ in_stock = _is_in_stock(WithoutVariants)
              /\ ~in_stock => RowsOfProduct(node, url, _detect_menu_type(url)) = <<>>
        /\ StockKeyPositions(node) = {} =>
              /\ in_stock
              /\ RowsOfProduct(node, url, _detect_menu_type(url)) = built
              /\ (HasUsableName(node) /\ HasVariantList(node))
                    => Len(built) = Cardinality(Passing)

\* A named product with quantityAvailable: 0 of its own and two variant
\* records, one of them carrying a stock field that reads in stock, was gated
\* out although the builder gave rows for it.
C39_Witness ==
    /\ phase = "built"
    /\ OwnStockFields # {}
    /\ ~in_stock
    /\ Len(Members) = 2
    /\ SomeVariantSignalsStock(node)
    /\ Passing # {}
    /\ built # <<>>

====
